---- MODULE Spec2Model ----
(***************************************************************************)
(* picobot: the message hub (internal/chat/chat.go), its producers and     *)
(* subscribers, the agent loop that consumes the hub, the write_memory     *)
(* tool, the MCP stdio and HTTP transports and the MCP manager             *)
(* (internal/mcp), the scheduler and the cron API, the Discord adapters    *)
(* (internal/channels), and the web, exec and filesystem tools             *)
(* (internal/agent/tools), as state machines.                              *)
(*                                                                         *)
(* One module, several specifications over the same variables:             *)
(*   SpecInbound      handlers -> In -> agent loop -> Out                  *)
(*   FairSpecBackpressure  handlers blocked on a full In, fair scheduler   *)
(*   SpecAgent        the agent loop with its tools and memory stores      *)
(*   SpecRoute        agent -> Out -> router -> subscriber queues          *)
(*   FairSpecRoute    SpecRoute with the scheduler's fairness              *)
(*   SpecClose        the hub under Hub.Close                              *)
(*   SpecStdio        the MCP stdio transport: Calls, reader, child, Close *)
(*   SpecDemux        the transport's Calls and reader on a live child     *)
(*   SpecPending      the transport's pending table while the child dies   *)
(*   SpecShutdown     concurrent Close calls on the stdio transport        *)
(*   FairSpecShutdown SpecShutdown with the scheduler's fairness           *)
(*   SpecClosed       Call and SendNotification around Close, both kinds   *)
(*   SpecIds          the request ids drawn by both transports             *)
(*   SpecHttpSession  the HTTP transport's session id                      *)
(*   SpecSse          the HTTP transport's event streams                   *)
(*   SpecHttpStatus   the HTTP transport's Call against any status         *)
(*   SpecRegister     the manager's tools and the agent's registry         *)
(*   SpecUsage        concurrent ExecuteTool calls and the usage counter   *)
(*   SpecHandshake    the MCP client's initialize / tools/list handshake   *)
(*   SpecCron         the scheduler's jobs: schedule, fire, cancel         *)
(*   SpecCancel       concurrent DELETE /api/cron/<id> requests            *)
(*   SpecDiscord      both Discord message handlers on any event           *)
(*   SpecStartDiscord StartDiscord on any token, allowFrom and environment *)
(*   SpecTyping       the Discord typing indicators                        *)
(*   FairSpecTyping   SpecTyping with the scheduler's fairness             *)
(*   SpecWeb          the web tool against any resolver and server         *)
(*   SpecExecTool     the exec tool on any cmd                             *)
(*   SpecFilesystem   the filesystem tool on a workspace with a symlink    *)
(*   SpecSplit        splitMessage of both Discord adapters on any content *)
(*   SpecConfig       POST and GET /api/config against the config file     *)
(*   SpecOwn          the clients the MCP manager creates and closes       *)
(*   FairSpecCalls    the stdio transport's Call under a fair scheduler    *)
(*   SpecKeys         tool keys of servers and tools named with "_"        *)
(*   SpecLegacy       concurrent calls on the legacy stdio Client          *)
(*   FairSpecLegacy   SpecLegacy with the scheduler's fairness             *)
(* Each specification leaves the variables of the other subsystems at      *)
(* their initial values.                                                   *)
(***************************************************************************)
EXTENDS Integers, Sequences, FiniteSets, TLC

(***************************************************************************)
(* Bounds of the model.                                                    *)
(***************************************************************************)
\* clients the MCP manager creates in one run
MaxClients == 3
\* longest content given to splitMessage, in characters
MaxContent == 4
\* largest maxLen given to splitMessage
MaxSplit == 3
\* concurrent calls on the legacy stdio Client
MaxLegacyCalls == 2
\* capacity given to NewHub(buffer): In, Out and every subscriber queue
Buffer == 2
\* user messages accepted by the adapters in one run
MaxMsgs == 4
\* of these, the messages accepted in a run of the full agent loop
MaxAgentMsgs == 2
\* Subscribe calls in one run
MaxSubs == 2
\* maxToolIterations handed to NewAgentLoop (the tests use 3, 4 and 5)
MaxToolIterations == 2
\* tool calls in one provider response
MaxToolCalls == 1
\* StdioTransport.Call invocations in one run
MaxCalls == 2
\* messages the MCP child writes to its stdout in one run
MaxServerMsgs == 2
\* messages the child's stdout pipe holds unread
MaxPipe == 2
\* StdioTransport.Close invocations in one run
MaxClosers == 2
\* StdioTransport.SendNotification invocations in one run
MaxNotifs == 1
\* HTTPTransport operations (Call, SendNotification, StartEventStream) in one run
MaxHttpOps == 2
\* lines of one event-stream response
MaxSseLines == 2
\* Manager.ConnectServer calls in one run
MaxServers == 2
\* Manager.ExecuteTool calls in one run
MaxExecs == 2
\* Scheduler.Schedule calls in one run
MaxJobs == 2
\* ticks of the scheduler's clock in one run
MaxTime == 2
\* Scheduler.Cancel calls (DELETE /api/cron/<id> requests) in one run
MaxCancels == 2
\* Discord MESSAGE_CREATE events handled in one run
MaxEvents == 2
\* replies the Discord adapter takes from its subscription in one run
MaxReplies == 1
\* ticks of a typing indicator's ticker in one run
MaxTicks == 1
\* addresses in one answer of the resolver
MaxAddrs == 2
\* arguments after the program in the cmd of one exec call
MaxArgs == 2
\* web.go: the redirects one fetch follows
maxWebRedirects == 10

(***************************************************************************)
(* The hub's vocabulary.                                                   *)
(***************************************************************************)
\* Inbound.Channel / Outbound.Channel: the front-end families
Channels == {"discord", "web"}
\* Inbound.ChatID
Chats == {"c1", "c2"}
\* goroutines that run an adapter's message handler (a gateway event loop,
\* one HTTP handler per POST /api/chat)
Handlers == {"h1", "h2"}

VARIABLES
  \* ---- hub (chat.Hub) ----
  msgs,        \* history: the messages accepted so far; a message's id is its index
  In,          \* Hub.In: ids of the inbound messages queued, oldest first
  Out,         \* Hub.Out: ids of the outbound messages queued, oldest first
  inClosed,    \* close(h.In) has run
  outClosed,   \* close(h.Out) has run
  closePc,     \* Hub.Close in progress: "none", "mid" (In closed, Out not yet)
  subs,        \* Hub.subs: channel id -> subscriber queue (0: none)
  subQ,        \* the subscriber queues made by Subscribe, by creation index
  subName,     \* history: the name each subscriber queue was subscribed under
  nextSub,     \* number of Subscribe calls so far
  ctxDone,     \* the context given to StartRouter and the agent was cancelled
  crashed,     \* a goroutine panicked (the Go runtime ends the process)
  \* ---- producers (adapters) ----
  prodPc,      \* per handler: "idle" or "sending" (in hub.In <- msg)
  prodMsg,     \* per handler: id of the message being sent (0: none)
  sent,        \* history: ids in the order their sends on In completed
  \* ---- router (Hub.StartRouter goroutine) ----
  routerPc,    \* "unstarted", "recv", "send", "exited"
  routerMsg,   \* id of the outbound held by the router (0: none)
  routerCh,    \* subscriber queue looked up for routerMsg (0: none)
  \* ---- subscribers' consumers ----
  consumerPc,  \* per subscriber queue: "none", "running", "stopped", "ended"
  \* ---- agent loop ----
  agentPc,     \* "idle", "chat", "tools", "emit", "exited"
  agentCur,    \* id of the inbound being processed (0: none)
  iteration,   \* provider invocations made for agentCur
  toolRounds,  \* of these, the invocations answered with tool calls
  finalKind,   \* what the reply will be: "none", "text", "limit", "remember", "error"
  toolCalls,   \* the tool calls of the last provider response, in declaration order
  session,     \* per conversation: tokens in the session's turns
  \* ---- memory (MemoryStore per conversation, WriteMemoryTool) ----
  wmMem,       \* WriteMemoryTool.mem: the store the tool writes to
  memToday,    \* per store: tokens in today's daily note
  memLong,     \* per store: tokens in MEMORY.md
  writes,      \* history: <<store written, conversation being processed>>
  \* ---- history of the hub run ----
  received,    \* ids in the order the agent loop received them
  lastReply,   \* the reply the agent emitted last: [id, kind, queued]
  lastDrop,    \* the outbound the router dropped last: [id, why]
  \* ---- MCP stdio transport (mcp.StdioTransport) ----
  requestIDCounter, \* the process-wide counter behind nextRequestID
  callPc,      \* per Call: "idle", "alloc", "send", "failed", "wait", "returned"
  callId,      \* per Call: req.ID (0: none yet)
  callResult,  \* per Call: what it returned: <<kind, response id>>
  pending,     \* StdioTransport.pending: request id -> Call (0: no entry)
  done,        \* per Call: pendingCall.done, a queue of capacity 1 of response ids
  closed,      \* StdioTransport.closed
  stdinOpen,   \* the child's stdin pipe has not been closed by Close
  childUp,     \* the child process is running
  wire,        \* history: ids of the requests flushed to the child's stdin
  stdoutQ,     \* the child's stdout: ids of the messages not yet read (0: no id)
  serverSent,  \* number of messages the child has written so far
  readerPc,    \* readResponses: "top", "reading", "dispatch", "exited"
  readerResp,  \* id of the response the reader is dispatching (0: none)
  readerCall,  \* the Call the reader looked up for it (0: none)
  stdioClosePc, \* per Close: "none", "reap", "join", "returned"
  closeWon,    \* per Close: its CompareAndSwap(false, true) succeeded
  stdinCloses, \* history: number of times stdinPipe.Close ran
  reaps,       \* history: number of times cmd.Wait returned
  notifPc,     \* per SendNotification: "idle", "lock", "returned"
  notifResult, \* per SendNotification: "none", "nil", "closed", "write"
  notifFrames, \* history: number of notification frames flushed to stdin
  \* ---- MCP HTTP transport (mcp.HTTPTransport) ----
  hSession,    \* HTTPTransport.sessionID (0: the empty string)
  hLastEventID, \* HTTPTransport.lastEventID (0: the empty string)
  hClosed,     \* HTTPTransport.closed
  hPc,         \* per operation: "idle", "alloc", "sent", "sse", "returned"
  hKind,       \* per operation: "none", "call", "notify", "get"
  hId,         \* per operation: req.ID of a Call (0: none)
  hLinesRead,  \* per operation: lines read from its event-stream response
  hResult,     \* per operation: <<what it returned, HTTP status it had seen>>
  hLog,        \* history: the requests sent, <<method, session, last event id>>
  hSrvSet,     \* history: session id of the last POST response that carried one
  hCallSet,    \* history: the same, among the responses to a Call's POST
  hIdRead,     \* history: value of the last "id:" line read (-1: none read)
  hStream,     \* the goroutine readSSEEvents is running
  hClosePc,    \* per Close: "none", "delete", "returned"
  \* ---- MCP manager (mcp.Manager) and the tool registry ----
  mTools,      \* Manager.tools: set of <<key, server name, tool name>>
  regTools,    \* Registry.tools: set of <<name, kind of tool>>
  usage,       \* Manager.usage: key -> count
  connects,    \* number of ConnectServer calls so far
  execPc,      \* per ExecuteTool: "idle", "call", "count", "counted", "returned"
  execKey,     \* per ExecuteTool: its toolKey
  execResult,  \* per ExecuteTool: "none", "ok", "notfound", "failed", "iserror"
  okReturns,   \* history: key -> number of ExecuteTool calls that returned a result
  connPc,      \* per server: where its ConnectServer stands
  connSent,    \* history, per server: the methods handed to its transport
  initResult,  \* history, per server: how Client.Initialize returned
  listResult,  \* history, per server: how Client.ListTools returned
  \* ---- scheduler (cron.Scheduler) and the cron API ----
  jobs,        \* the queue: set of <<id, channel, chat, message, fire-at,
               \* recurring, interval>>
  cronNow,     \* the clock
  nextJob,     \* number of Schedule calls so far; a job's id is its number
  scheduled,   \* history: id -> the job as Schedule inserted it
  cronIn,      \* history: the inbound messages the worker produced,
               \* <<job id, channel, chat, content, fire-at fired at>>
  cancelPc,    \* per DELETE request: "idle", "cancelled", "responded"
  cancelId,    \* per DELETE request: the id in its path (0: none)
  cancelResult, \* per DELETE request: what Cancel returned
  cancelStatus, \* per DELETE request: the status answered (0: none)
  cancelLog,   \* history: the Cancel calls in order, <<id, the job was
               \* scheduled, result>>
  \* ---- Discord adapter (channels.discordClient) ----
  dcStart,     \* what StartDiscord returned: "none", "ok", or the error
  dcEnv,       \* value of PICOBOT_ALLOW_PUBLIC_CHANNELS at StartDiscord
  dcAllowed,   \* discordClient.allowed: the ids of allowFrom
  dcEvents,    \* number of MESSAGE_CREATE events handled so far
  dcLast,      \* the event last handled, <<handler, event, Content built,
               \* it was sent to hub.In>> (<<>>: none yet)
  dcCtxDone,   \* the adapter's context is cancelled
  dcShutdown,  \* the shutdown goroutine of StartDiscord has run
  typingStop,  \* discordClient.typingStop: chat -> indicator task (0: none)
  nextTask,    \* number of indicator tasks started so far
  taskChat,    \* per indicator task: its channel
  taskPc,      \* per indicator task: "none", "started", "running", "exited"
  stopClosed,  \* per indicator task: close(stop) has run
  typingCalls, \* history: number of ChannelTyping calls
  dcReplies,   \* history: the chats of the replies sent, in order
  \* ---- the web tool (tools.WebTool) ----
  webPc,       \* "idle", "dialing", "connected", "done": where Execute is
  webAllow,    \* WebTool.allowPrivate
  webTarget,   \* the host validateTarget was last applied to
  webVia,      \* requests handed to the client so far in this Execute
  webAnswer,   \* the resolver's answer in the last dialContext of this hop, by kind
  webDialed,   \* the addresses dialed in this hop
  webErr,      \* the error Execute returns, "" for none
  \* ---- the exec tool ----
  cmdPc,       \* "idle", "running", "done": where ExecTool.Execute is
  cmdLast,     \* the cmd argument of the last Execute: <<form, argv>>
  cmdUnsafe,   \* the unsafe override was set at that Execute
  cmdErr,      \* the error Execute returns, "" for none
  cmdStarted,  \* child processes started by that Execute
  \* ---- the filesystem tool (tools.FilesystemTool) ----
  fsTree,      \* the workspace: per node "none", "dir", "file", "written", "link"
  linkTarget,  \* where the workspace's symlink "in" points: "sub", "up", "etc"
  fsLast,      \* the last operation: <<action, path, result, link target, effect>>
  fsOutside,   \* history: what was done outside the workspace
  \* ---- splitMessage (internal/channels) ----
  splitPc,     \* "idle", "done": a call of splitMessage has returned
  splitArgs,   \* its arguments: <<version, content, maxLen>>
  splitChunks, \* the chunks it returned
  \* ---- the config API of the web server (internal/ui) ----
  cfgFile,     \* the JSON document in the config file
  cfgPost,     \* the last POST /api/config: <<build, document saved, status>>
  cfgGot,      \* the document the GET after it returned, <<>> before that GET
  \* ---- the clients the MCP manager creates ----
  clientState, \* per client: "none", "open", "closed" (its subprocess or session)
  clientConn,  \* history, per client: <<server name, how its ConnectServer ended>>
  nextClient,  \* number of clients created so far
  mClients,    \* Manager.clients: server name -> client (0: none)
  toolClient,  \* MCPTool.client of Manager.tools: key -> client (0: no such tool)
  mgrLast,     \* the manager's last operation: "none", "connect", "close"
  \* ---- tool keys of servers and tools named with underscores ----
  kTools,      \* Manager.tools: set of <<key, server name, tool name>>
  kReg,        \* Registry.tools: set of <<name, kind of tool>>
  kListed,     \* history: the <<server name, tool name>> pairs ConnectServer stored
  \* ---- the legacy stdio Client of client.go ----
  lcPc,        \* per Client.call: "idle", "lock", "wait", "returned"
  lcReader,    \* per call, its reader goroutine: "none", "lock", "reading", "done"
  lcMu,        \* Client.mu: 0 free, k held by the reader goroutine of call k
  lcPending,   \* request ids the server has read and not answered
  lcOut,       \* the server's stdout: ids of the responses not read yet
  lcDone,      \* per call, its callDone channel: "none", "resp", "err"
  lcCtx,       \* per call: its context is done
  lcLost,      \* history: ids of the responses a reader of another call dropped
  lcEof        \* the server process has exited

chanVars == <<In, Out, inClosed, outClosed, closePc, ctxDone, crashed>>
subVars == <<subs, subQ, subName, nextSub, consumerPc>>
prodVars == <<msgs, prodPc, prodMsg, sent>>
routerVars == <<routerPc, routerMsg, routerCh>>
loopVars == <<agentPc, agentCur, iteration, toolRounds, finalKind, toolCalls,
              session>>
memVars == <<wmMem, memToday, memLong, writes>>
histVars == <<received, lastReply, lastDrop>>

callVars == <<requestIDCounter, callPc, callId, callResult, pending, done>>
closeVars == <<stdioClosePc, closeWon, stdinCloses, reaps>>
childVars == <<closed, stdinOpen, childUp, wire, stdoutQ, serverSent, closeVars>>
notifyVars == <<notifPc, notifResult, notifFrames>>
readerVars == <<readerPc, readerResp, readerCall>>

hubVars == <<chanVars, subVars, prodVars, routerVars, histVars>>
agentVars == <<loopVars, memVars>>
stdioVars == <<callVars, childVars, readerVars, notifyVars>>
httpVars == <<hSession, hLastEventID, hClosed, hPc, hKind, hId, hLinesRead, hResult,
              hLog, hSrvSet, hCallSet, hIdRead, hStream, hClosePc>>
connVars == <<connPc, connSent, initResult, listResult>>
mgrVars == <<mTools, regTools, usage, connects, execPc, execKey, execResult,
             okReturns, connVars>>
\* the subsystems beside the hub, the agent and MCP
cronVars == <<jobs, cronNow, nextJob, scheduled, cronIn, cancelPc, cancelId,
              cancelResult, cancelStatus, cancelLog>>
typingVars == <<typingStop, nextTask, taskChat, taskPc, stopClosed, typingCalls>>
discordVars == <<dcStart, dcEnv, dcAllowed, dcEvents, dcLast, dcCtxDone, dcShutdown, dcReplies,
                 typingVars>>
webVars == <<webPc, webAllow, webTarget, webVia, webAnswer, webDialed, webErr>>
cmdVars == <<cmdPc, cmdLast, cmdUnsafe, cmdErr, cmdStarted>>
fsVars == <<fsTree, linkTarget, fsLast, fsOutside>>
toolVars == <<webVars, cmdVars, fsVars>>
splitVars == <<splitPc, splitArgs, splitChunks>>
cfgVars == <<cfgFile, cfgPost, cfgGot>>
ownVars == <<clientState, clientConn, nextClient, mClients, toolClient, mgrLast>>
keyVars == <<kTools, kReg, kListed>>
legVars == <<lcPc, lcReader, lcMu, lcPending, lcOut, lcDone, lcCtx, lcLost, lcEof>>
moreVars == <<splitVars, cfgVars, ownVars, keyVars, legVars>>
sideVars == <<cronVars, discordVars, toolVars, moreVars>>

\* the hub with its agent
chatVars == <<hubVars, agentVars>>

\* everything outside the stdio transport, and the MCP side as a whole
outerVars == <<chatVars, sideVars>>
restVars == <<chatVars, httpVars, mgrVars, sideVars>>
mcpVars == <<stdioVars, httpVars, mgrVars, sideVars>>

vars == <<chatVars, stdioVars, httpVars, mgrVars, sideVars>>

MsgIds == 1..MaxMsgs
SubIds == 1..MaxSubs

\* the elements of a sequence
Range(seq) == {seq[i] : i \in 1..Len(seq)}
\* the Call invocations, and the request ids they can draw
Calls == 1..MaxCalls
ReqIds == 1..MaxCalls
\* the Close and the SendNotification invocations
Closers == 1..MaxClosers
Notifs == 1..MaxNotifs

\* the operations on the HTTP transport, the session ids a server hands out
\* and the event ids of its streams (0 stands for the empty string)
HttpOps == 1..MaxHttpOps
SessionIds == {1, 2}
EventIds == {1, 2}

\* names of configured MCP servers (keys of config.MCPConfig.Servers) and of
\* the tools they list
ServerNames == {"echo", "write", "mcp"}
ToolNames == {"echo", "memory", "stats"}
\* names of the native tools (FilesystemTool, WebTool, WriteMemoryTool)
NativeNames == {"filesystem", "web", "write_memory"}
\* the ExecuteTool invocations
Execs == 1..MaxExecs

\* ids of scheduled jobs, the DELETE requests, the routing targets and the
\* prompts stored in a job, and the intervals of recurring jobs
JobIds == 1..MaxJobs
Cancels == 1..MaxCancels
Routings == {<<"discord", "c1">>, <<"web", "c2">>}
Prompts == {"p1", "p2"}
\* the prompt of the job scheduled for a routing target
PromptFor(routing) == IF routing[1] = "discord" THEN "p1" ELSE "p2"
Intervals == {1}

\* Discord: the user ids, the bot's id, the indicator tasks
Users == {"u1", "u2"}
BotID == "bot"
Tasks == 1..MaxEvents
\* Message.Content as the sequence of its parts: text, mentions of the bot in
\* both forms, a mention of a user
Contents == {<<>>, <<"hi">>, <<"<@bot>", "hi">>, <<"<@!bot>">>, <<"<@u1>", "hi">>}
\* a MESSAGE_CREATE event: <<Author.ID, Author.Bot, GuildID is not empty,
\* the bot is in Mentions, what it replies to, Content, it has attachments>>;
\* Discord lists every user mentioned in the content in Mentions; the bot's
\* own messages are the ones of a bot account here
DiscordEvents ==
  {e \in (Users \cup {BotID}) \X BOOLEAN \X BOOLEAN \X BOOLEAN \X
          {"none", "bot", "other"} \X Contents \X BOOLEAN :
     /\ (\E i \in 1..Len(e[6]) : e[6][i] \in {"<@bot>", "<@!bot>"}) => e[4]
     /\ e[1] = BotID <=> e[2]}
\* Message.ChannelID: a direct-message channel or a guild channel
EventChannel(e) == IF e[3] THEN "c2" ELSE "c1"

\* toolKey := fmt.Sprintf("%s_%s", name, tool.Name)
ToolKey(name, tool) == name \o "_" \o tool
\* the keys ConnectServer can produce from these names
ToolKeys == {ToolKey(name, tool) : name \in ServerNames, tool \in ToolNames}

\* Outbound.Channel of the reply to inbound id: the agent replies on the
\* channel of the inbound it processed
ChannelOf(id) == msgs[id].Channel
ChatOf(id) == msgs[id].ChatID
ConvOf(id) == <<msgs[id].Channel, msgs[id].ChatID>>

\* conversation keys, and the store the agent is constructed with
Convs == Channels \X Chats
RootStore == <<"", "">>
Stores == Convs \cup {RootStore}

(***************************************************************************)
(* Initial state: NewHub(buffer), NewAgentLoop, adapters not yet started.  *)
(***************************************************************************)
\* NewHub: two empty buffered channels and an empty subscriber map
NewHub ==
  /\ In = <<>>
  /\ Out = <<>>
  /\ inClosed = FALSE
  /\ outClosed = FALSE
  /\ closePc = "none"
  /\ ctxDone = FALSE
  /\ crashed = FALSE
  /\ subs = [c \in Channels |-> 0]
  /\ subQ = [q \in SubIds |-> <<>>]
  /\ subName = [q \in SubIds |-> ""]
  /\ nextSub = 0
  /\ consumerPc = [q \in SubIds |-> "none"]
  /\ routerPc = "unstarted"
  /\ routerMsg = 0
  /\ routerCh = 0

InitProducers ==
  /\ msgs = <<>>
  /\ prodPc = [p \in Handlers |-> "idle"]
  /\ prodMsg = [p \in Handlers |-> 0]
  /\ sent = <<>>

\* NewAgentLoop: no message in progress, the write_memory tool holds the
\* store it was constructed with, every store is empty
NewAgentLoop ==
  /\ agentPc = "idle"
  /\ agentCur = 0
  /\ iteration = 0
  /\ toolRounds = 0
  /\ finalKind = "none"
  /\ toolCalls = <<>>
  /\ session = [c \in Convs |-> {}]
  /\ wmMem = RootStore
  /\ memToday = [s \in Stores |-> {}]
  /\ memLong = [s \in Stores |-> {}]
  /\ writes = {}

InitHistory ==
  /\ received = <<>>
  /\ lastReply = [id |-> 0, kind |-> "none", queued |-> FALSE]
  /\ lastDrop = [id |-> 0, why |-> "none"]

\* NewStdioTransport: the child is started, the pending table is empty, the
\* reader goroutine is at the top of its loop
NewStdioTransport ==
  /\ requestIDCounter = 0
  /\ callPc = [c \in Calls |-> "idle"]
  /\ callId = [c \in Calls |-> 0]
  /\ callResult = [c \in Calls |-> <<"none", 0>>]
  /\ pending = [i \in ReqIds |-> 0]
  /\ done = [c \in Calls |-> <<>>]
  /\ closed = FALSE
  /\ stdinOpen = TRUE
  /\ childUp = TRUE
  /\ wire = {}
  /\ stdoutQ = <<>>
  /\ serverSent = 0
  /\ readerPc = "top"
  /\ readerResp = 0
  /\ readerCall = 0
  /\ stdioClosePc = [k \in Closers |-> "none"]
  /\ closeWon = [k \in Closers |-> FALSE]
  /\ stdinCloses = 0
  /\ reaps = 0
  /\ notifPc = [n \in Notifs |-> "idle"]
  /\ notifResult = [n \in Notifs |-> "none"]
  /\ notifFrames = 0

\* NewHTTPTransport: no session, no event id, nothing sent
NewHTTPTransport ==
  /\ hSession = 0
  /\ hLastEventID = 0
  /\ hClosed = FALSE
  /\ hPc = [r \in HttpOps |-> "idle"]
  /\ hKind = [r \in HttpOps |-> "none"]
  /\ hId = [r \in HttpOps |-> 0]
  /\ hLinesRead = [r \in HttpOps |-> 0]
  /\ hResult = [r \in HttpOps |-> <<"none", 0>>]
  /\ hLog = <<>>
  /\ hSrvSet = 0
  /\ hCallSet = 0
  /\ hIdRead = -1
  /\ hStream = FALSE
  /\ hClosePc = [k \in Closers |-> "none"]

\* NewManager: empty maps; the registry holds the agent's own tools
NewManager ==
  /\ mTools = {}
  /\ regTools = {<<n, "native">> : n \in NativeNames}
  /\ usage = [k \in ToolKeys |-> 0]
  /\ connects = 0
  /\ execPc = [e \in Execs |-> "idle"]
  /\ execKey = [e \in Execs |-> ""]
  /\ execResult = [e \in Execs |-> "none"]
  /\ okReturns = [k \in ToolKeys |-> 0]
  /\ connPc = [name \in ServerNames |-> "new"]
  /\ connSent = [name \in ServerNames |-> <<>>]
  /\ initResult = [name \in ServerNames |-> "none"]
  /\ listResult = [name \in ServerNames |-> "none"]

\* a scheduler with an empty queue
NewScheduler ==
  /\ jobs = {}
  /\ cronNow = 0
  /\ nextJob = 0
  /\ scheduled = [id \in JobIds |-> <<>>]
  /\ cronIn = <<>>
  /\ cancelPc = [k \in Cancels |-> "idle"]
  /\ cancelId = [k \in Cancels |-> 0]
  /\ cancelResult = [k \in Cancels |-> FALSE]
  /\ cancelStatus = [k \in Cancels |-> 0]
  /\ cancelLog = <<>>

\* the Discord adapter before StartDiscord
NoDiscordClient ==
  /\ dcStart = "none"
  /\ dcEnv = ""
  /\ dcAllowed = {}
  /\ dcEvents = 0
  /\ dcLast = <<>>
  /\ dcCtxDone = FALSE
  /\ dcShutdown = FALSE
  /\ typingStop = [c \in Chats |-> 0]
  /\ nextTask = 0
  /\ taskChat = [t \in Tasks |-> ""]
  /\ taskPc = [t \in Tasks |-> "none"]
  /\ stopClosed = [t \in Tasks |-> FALSE]
  /\ typingCalls = 0
  /\ dcReplies = <<>>

\* ---- the web tool's addresses and hosts ----
\* an IPv4 address is its four octets, an IPv6 address its eight 16-bit groups
Is4(ip) == Len(ip) = 4
Is6(ip) == Len(ip) = 8

\* netip.Addr.Unmap: an IPv4-mapped IPv6 address ::ffff:a.b.c.d is a.b.c.d
Unmap(ip) ==
  IF Is6(ip) /\ (\A i \in 1..5 : ip[i] = 0) /\ ip[6] = 65535
    THEN <<ip[7] \div 256, ip[7] % 256, ip[8] \div 256, ip[8] % 256>>
    ELSE ip

RECURSIVE Pow2(_)
Pow2(n) == IF n = 0 THEN 1 ELSE 2 * Pow2(n - 1)

\* netip.Prefix.Contains for the prefix <<address, bits>>: same family and
\* the same leading bits
PrefixContains(p, ip) ==
  LET w == IF Is4(ip) THEN 8 ELSE 16
      full == p[2] \div w
      rest == p[2] % w
  IN /\ Len(p[1]) = Len(ip)
     /\ \A i \in 1..full : ip[i] = p[1][i]
     /\ rest > 0 => ip[full + 1] \div Pow2(w - rest) = p[1][full + 1] \div Pow2(w - rest)

blockedIPv4Prefixes ==
  { <<(<<0, 0, 0, 0>>), 8>>,       <<(<<100, 64, 0, 0>>), 10>>,
    <<(<<192, 0, 0, 0>>), 24>>,    <<(<<192, 0, 2, 0>>), 24>>,
    <<(<<198, 18, 0, 0>>), 15>>,   <<(<<198, 51, 100, 0>>), 24>>,
    <<(<<203, 0, 113, 0>>), 24>>,  <<(<<240, 0, 0, 0>>), 4>> }

\* 100::/64, 2001:2::/48, 2001:db8::/32
blockedIPv6Prefixes ==
  { <<(<<256, 0, 0, 0, 0, 0, 0, 0>>), 64>>,
    <<(<<8193, 2, 0, 0, 0, 0, 0, 0>>), 48>>,
    <<(<<8193, 3512, 0, 0, 0, 0, 0, 0>>), 32>> }

ContainsPrefix(ip, prefixes) == \E p \in prefixes : PrefixContains(p, ip)

\* the predicates of net/netip that isPrivateOrLocalIP consults
IsLoopback(ip) == IF Is4(ip) THEN ip[1] = 127 ELSE ip = <<0, 0, 0, 0, 0, 0, 0, 1>>
IsPrivate(ip) ==
  IF Is4(ip)
    THEN \/ ip[1] = 10
         \/ ip[1] = 172 /\ ip[2] \div 16 = 1
         \/ ip[1] = 192 /\ ip[2] = 168
    ELSE ip[1] \div 512 = 126
IsLinkLocalUnicast(ip) ==
  IF Is4(ip) THEN ip[1] = 169 /\ ip[2] = 254 ELSE ip[1] \div 64 = 1018
IsLinkLocalMulticast(ip) ==
  IF Is4(ip) THEN ip[1] = 224 /\ ip[2] = 0 /\ ip[3] = 0
             ELSE ip[1] \div 256 = 255 /\ ip[1] % 16 = 2
IsMulticast(ip) == IF Is4(ip) THEN ip[1] \div 16 = 14 ELSE ip[1] \div 256 = 255
IsUnspecified(ip) == \A i \in 1..Len(ip) : ip[i] = 0

\* isPrivateOrLocalIP(ip)
IsPrivateOrLocalIP(ip) ==
  LET u == Unmap(ip) IN
    \/ IsLoopback(u) \/ IsPrivate(u) \/ IsLinkLocalUnicast(u)
    \/ IsLinkLocalMulticast(u) \/ IsMulticast(u) \/ IsUnspecified(u)
    \/ IF Is4(u) THEN ContainsPrefix(u, blockedIPv4Prefixes)
                 ELSE ContainsPrefix(u, blockedIPv6Prefixes)

\* addresses a resolver may answer with: 127.0.0.1, 100.64.0.1, 1.1.1.1,
\* 100.128.0.1, ::ffff:127.0.0.1, 2606:4700:4700::1111
ResolvedAddrs ==
  { <<127, 0, 0, 1>>, <<100, 64, 0, 1>>, <<1, 1, 1, 1>>, <<100, 128, 0, 1>>,
    <<0, 0, 0, 0, 0, 65535, 32512, 1>>,
    <<9734, 18176, 18176, 0, 0, 0, 0, 4369>> }

\* addresses written as the host of a URL: 127.0.0.1, 1.1.1.1, 100.64.0.1,
\* 198.18.0.1, ::ffff:127.0.0.1, 2001:db8::1, 2606:4700:4700::1111
UrlAddrs ==
  { <<127, 0, 0, 1>>, <<1, 1, 1, 1>>, <<100, 64, 0, 1>>, <<198, 18, 0, 1>>,
    <<0, 0, 0, 0, 0, 65535, 32512, 1>>, <<8193, 3512, 0, 0, 0, 0, 0, 1>>,
    <<9734, 18176, 18176, 0, 0, 0, 0, 4369>> }

\* host names, as their labels: localhost, LOCALHOST, app.localhost,
\* example.com, and 2130706433, which netip.ParseAddr does not take for an
\* address
HostNames ==
  { <<"localhost">>, <<"LOCALHOST">>, <<"app", "localhost">>,
    <<"example", "com">>, <<"2130706433">> }

\* the host of a URL: <<"ip", <<>>, address>> when netip.ParseAddr accepts
\* it, <<"name", labels, <<>>>> otherwise
Hosts ==
  {<<"ip", <<>>, a>> : a \in UrlAddrs} \cup {<<"name", n, <<>>>> : n \in HostNames}
NoHost == <<"none", <<>>, <<>>>>

\* the answers of net.DefaultResolver.LookupIPAddr; <<>> stands for an error
\* and for an empty answer
AddrSeqs == UNION {[1..n -> ResolvedAddrs] : n \in 0..MaxAddrs}

\* WebTool before any Execute
NewWebTool ==
  /\ webPc = "idle"
  /\ webAllow = FALSE
  /\ webTarget = NoHost
  /\ webVia = 0
  /\ webAnswer = "none"
  /\ webDialed = {}
  /\ webErr = ""

\* ---- the exec tool's commands ----
\* a string is the sequence of its pieces, "/" a piece of its own
ProgramWords ==
  { <<"echo">>, <<"ls">>, <<"sleep">>, <<"git">>, <<"find">>, <<"sh">>, <<"rm">>,
    <<".", "/", "script.sh">> }
ArgWords ==
  { <<"hello">>, <<"/", "etc">>, <<"-c">>, <<"alias.", "pwn=!echo bypassed">>,
    <<"-exec">> }

\* the list forms of cmd: a program and up to MaxArgs arguments
Argvs ==
  {<<>>} \cup
  UNION {{<<prog>> \o args : prog \in ProgramWords, args \in [1..n -> ArgWords]} :
           n \in 0..MaxArgs}

\* the cmd argument: a list of strings, a list with an element that is no
\* string, a string, or none
Cmds ==
  {<<"list", argv>> : argv \in Argvs}
    \cup {<<"mixed", <<(<<"echo">>), (<<"hello">>)>>>>,
          <<"string", <<(<<"ls -la">>)>>>>, <<"string", <<(<<"echo hello">>)>>>>,
          <<"missing", <<>>>>}

\* the exec tool before any Execute
NewExecTool ==
  /\ cmdPc = "idle"
  /\ cmdLast = <<"missing", <<>>>>
  /\ cmdUnsafe = FALSE
  /\ cmdErr = ""
  /\ cmdStarted = 0

\* ---- the filesystem tool's workspace ----
\* the nodes of the workspace by their path from its root: the file f, the
\* directory sub, the symlink in, and what a write can create
Nodes ==
  { <<"f">>, <<"sub">>, <<"in">>, <<"sub", "f">>, <<"new">>, <<"new", "f">>,
    <<"sub", "new">>, <<"sub", "new", "f">> }

\* the path arguments, by component; a leading "/" is an absolute path
Paths ==
  { <<>>, <<"f">>, <<"sub">>, <<"sub", "f">>, <<"new", "f">>, <<"sub", "..", "f">>,
    <<"..">>, <<"..", "f">>, <<"sub", "..", "..", "f">>, <<"new", "..", "..">>,
    <<"/", "etc", "f">>,
    <<"in", "f">>, <<"in", "new", "f">>, <<"in", "..", "new", "f">> }

\* the targets of the symlink: sub (inside), .. and /etc (outside)
LinkTargets == {"sub", "up", "etc"}

InitialTree ==
  [n \in Nodes |-> IF n = <<"f">> THEN "file"
                   ELSE IF n = <<"sub">> THEN "dir"
                   ELSE IF n = <<"in">> THEN "link"
                   ELSE "none"]

\* NewFilesystemTool(workspaceDir) on that workspace
NewFilesystemTool ==
  /\ fsTree = InitialTree
  /\ linkTarget = "sub"
  /\ fsLast = <<>>
  /\ fsOutside = {}

\* no call of splitMessage yet
NoSplit ==
  /\ splitPc = "idle"
  /\ splitArgs = <<>>
  /\ splitChunks = <<>>

\* the fields of the config-file contract that the model follows, one of a
\* section: a plain string, a field below an omitempty pointer, the two
\* channels, and the url of an MCP server
ConfigFields ==
  {"agents.defaults.model", "providers.openai.apiKey", "channels.telegram.token",
   "channels.discord.token", "mcp.servers.s.url"}
\* a field is absent from a document, or holds the empty or a non-empty string
FieldValues == {"absent", "", "k"}
Documents == [ConfigFields -> FieldValues]
NoDocument == [f \in ConfigFields |-> "absent"]

\* the config file before any request
NewConfigFile ==
  /\ cfgFile = NoDocument
  /\ cfgPost = <<"", NoDocument, 0>>
  /\ cfgGot = <<>>

\* the clients of the manager
ClientIds == 1..MaxClients

\* NewManager: no client, no tool
NoClients ==
  /\ clientState = [c \in ClientIds |-> "none"]
  /\ clientConn = [c \in ClientIds |-> <<"", "none">>]
  /\ nextClient = 0
  /\ mClients = [name \in ServerNames |-> 0]
  /\ toolClient = [k \in ToolKeys |-> 0]
  /\ mgrLast = "none"

\* server and tool names as a configuration and a server may choose them
KeyServers == {"a", "a_b", "mcp"}
KeyTools == {"b_c", "c", "stats"}

\* NewManager and a registry with no MCP tool yet
NoKeys ==
  /\ kTools = {}
  /\ kReg = {}
  /\ kListed = {}

\* concurrent Client.call invocations on one client; call k draws request id k
LegacyCallers == 1..MaxLegacyCalls

\* the legacy NewClient: a started server, nothing sent, the mutex free
NewLegacyClient ==
  /\ lcPc = [k \in LegacyCallers |-> "idle"]
  /\ lcReader = [k \in LegacyCallers |-> "none"]
  /\ lcMu = 0
  /\ lcPending = {}
  /\ lcOut = <<>>
  /\ lcDone = [k \in LegacyCallers |-> "none"]
  /\ lcCtx = [k \in LegacyCallers |-> FALSE]
  /\ lcLost = {}
  /\ lcEof = FALSE

Init ==
  /\ NewHub /\ InitProducers /\ NewAgentLoop /\ InitHistory
  /\ NewStdioTransport /\ NewHTTPTransport /\ NewManager
  /\ NewScheduler /\ NoDiscordClient
  /\ NewWebTool /\ NewExecTool /\ NewFilesystemTool
  /\ NoSplit /\ NewConfigFile /\ NoClients /\ NoKeys /\ NewLegacyClient

(***************************************************************************)
(* Producers: an adapter accepts a user message (its filters passed) and   *)
(* sends it with a blocking channel send.                                  *)
(***************************************************************************)
\* the adapter's handler has built the chat.Inbound it is about to send
Accept(p, channel, chat) ==
  /\ ~crashed
  /\ prodPc[p] = "idle"
  /\ Len(msgs) < MaxMsgs
  /\ msgs' = Append(msgs, [Channel |-> channel, ChatID |-> chat])
  /\ prodMsg' = [prodMsg EXCEPT ![p] = Len(msgs) + 1]
  /\ prodPc' = [prodPc EXCEPT ![p] = "sending"]
  /\ UNCHANGED <<chanVars, sent, subVars, routerVars, histVars, agentVars>>
  /\ UNCHANGED mcpVars

\* a send that gives up when the queue is full (select with a default case)
SendInboundShedding(p) ==
  /\ ~crashed
  /\ prodPc[p] = "sending"
  /\ IF inClosed
       THEN /\ crashed' = TRUE
            /\ UNCHANGED <<In, prodPc, prodMsg, sent>>
       ELSE /\ In' = IF Len(In) < Buffer THEN Append(In, prodMsg[p]) ELSE In
            /\ sent' = IF Len(In) < Buffer THEN Append(sent, prodMsg[p]) ELSE sent
            /\ prodPc' = [prodPc EXCEPT ![p] = "idle"]
            /\ prodMsg' = [prodMsg EXCEPT ![p] = 0]
            /\ UNCHANGED crashed
  /\ UNCHANGED <<msgs, Out, inClosed, outClosed, closePc, ctxDone,
                 subVars, routerVars, histVars, agentVars>>
  /\ UNCHANGED mcpVars

\* hub.In <- chat.Inbound{...}: blocks while the queue is full; a send on a
\* closed channel panics
SendInbound(p) ==
  /\ ~crashed
  /\ prodPc[p] = "sending"
  /\ IF inClosed
       THEN /\ crashed' = TRUE
            /\ UNCHANGED <<In, prodPc, prodMsg, sent>>
       ELSE /\ Len(In) < Buffer
            /\ In' = Append(In, prodMsg[p])
            /\ sent' = Append(sent, prodMsg[p])
            /\ prodPc' = [prodPc EXCEPT ![p] = "idle"]
            /\ prodMsg' = [prodMsg EXCEPT ![p] = 0]
            /\ UNCHANGED crashed
  /\ UNCHANGED <<msgs, Out, inClosed, outClosed, closePc, ctxDone,
                 subVars, routerVars, histVars, agentVars>>
  /\ UNCHANGED mcpVars

(***************************************************************************)
(* Memory: one MemoryStore per conversation key; the write_memory tool     *)
(* writes to the store its mem field points to.                            *)
(***************************************************************************)
\* the store the agent loop scopes a message's memory to
StoreFor(id) == ConvOf(id)

\* a SetStore that keeps the first conversation's store once one is set
SetStoreOnce(mem) == wmMem' = IF wmMem = RootStore THEN mem ELSE wmMem

\* WriteMemoryTool.SetStore: switch the store the tool writes to
SetStore(mem) == wmMem' = mem

\* the memory and session state a round of tool calls works on
MemState == [today |-> memToday, long |-> memLong, sess |-> {}, writes |-> writes]

\* a tool call is <<tool name, target, append, content>>
ToolOf(call) == call[1]
TargetOf(call) == call[2]
AppendOf(call) == call[3]
ContentOf(call) == call[4]

\* WriteMemoryTool.Execute on store mem while message cur is processed:
\* "today" appends to the daily note; "long" appends to or overwrites
\* MEMORY.md; any other target is an error and writes nothing
WriteMemoryExecute(mem, st, args, cur) ==
  IF TargetOf(args) = "today"
    THEN [st EXCEPT !.today[mem] = @ \cup {ContentOf(args)},
                    !.writes = @ \cup {<<mem, ConvOf(cur)>>}]
    ELSE IF TargetOf(args) = "long"
      THEN [st EXCEPT !.long[mem] = IF AppendOf(args) THEN @ \cup {ContentOf(args)}
                                                      ELSE {ContentOf(args)},
                      !.writes = @ \cup {<<mem, ConvOf(cur)>>}]
      ELSE st

\* read_memory: the tool result carries the notes of the conversation's store
ReadMemoryExecute(st, args, cur) ==
  [st EXCEPT !.sess = @ \cup (IF TargetOf(args) = "today"
                                THEN st.today[StoreFor(cur)]
                                ELSE st.long[StoreFor(cur)])]

\* ToolRegistry.Execute by exact name; the call and its arguments become a
\* tool turn of the session
ExecuteTool(mem, st, args, cur) ==
  LET logged == [st EXCEPT !.sess = @ \cup (IF ToolOf(args) = "write_memory"
                                              THEN {ContentOf(args)} ELSE {})]
  IN IF ToolOf(args) = "write_memory" THEN WriteMemoryExecute(mem, logged, args, cur)
     ELSE IF ToolOf(args) = "read_memory" THEN ReadMemoryExecute(logged, args, cur)
     ELSE logged

\* the tool calls of one response, executed in declaration order
RECURSIVE RunTools(_, _, _, _)
RunTools(mem, st, calls, cur) ==
  IF calls = <<>> THEN st
  ELSE RunTools(mem, ExecuteTool(mem, st, Head(calls), cur), Tail(calls), cur)

\* a call of the exec tool: it touches neither memory nor session tokens
ExecCall == <<"exec", "", TRUE, 0>>

\* the tool calls a provider can answer with, given the tokens it has seen
ToolCallSet(visible) ==
  {<<"write_memory", t, TRUE, c>> : t \in {"today", "long", "bogus"}, c \in visible}
  \cup {<<"write_memory", "long", FALSE, c>> : c \in visible}
  \cup {<<"read_memory", t, TRUE, 0>> : t \in {"today", "long"}}
  \cup {ExecCall}

ToolCallSeqs(visible) ==
  UNION {[1..n -> ToolCallSet(visible)] : n \in 1..MaxToolCalls}

(***************************************************************************)
(* Agent loop: the single consumer of Hub.In.                              *)
(***************************************************************************)
\* context assembly: recall from the conversation's store, the session
\* window, the current user message
BuildContext(id) ==
  memToday[StoreFor(id)] \cup memLong[StoreFor(id)] \cup session[ConvOf(id)] \cup {id}

\* the tokens the provider sees when it is invoked for the current message
Visible == IF agentCur = 0 THEN {} ELSE BuildContext(agentCur)

\* a loop that takes the next inbound while a reply is still to be emitted
AgentReadyEarly == agentPc \in {"idle", "emit"}

\* Run's loop: the next inbound is taken when the previous message is done
AgentReady == agentPc = "idle"

\* Run: take the next inbound; resolve the session and rotate the memory
\* store to the message's conversation
AgentReceive ==
  /\ ~crashed
  /\ AgentReady
  /\ In # <<>>
  /\ agentCur' = Head(In)
  /\ In' = Tail(In)
  /\ received' = Append(received, Head(In))
  /\ SetStore(StoreFor(Head(In)))
  /\ agentPc' = "chat"
  /\ iteration' = 0
  /\ toolRounds' = 0
  /\ finalKind' = "none"
  /\ UNCHANGED <<Out, inClosed, outClosed, closePc, ctxDone, crashed, subVars,
                 prodVars, routerVars, lastReply, lastDrop, toolCalls,
                 session, memToday, memLong, writes>>
  /\ UNCHANGED mcpVars

\* Run returns when the context is cancelled or In is closed and drained
AgentExit ==
  /\ ~crashed
  /\ agentPc = "idle"
  /\ ctxDone \/ (inClosed /\ In = <<>>)
  /\ agentPc' = "exited"
  /\ UNCHANGED <<chanVars, subVars, prodVars, routerVars, histVars, agentCur,
                 iteration, toolRounds, finalKind, toolCalls, session, memVars>>
  /\ UNCHANGED mcpVars

\* fast path: "remember <payload>" goes to long-term memory, no LLM call
AgentRemember ==
  /\ ~crashed
  /\ agentPc = "chat"
  /\ iteration = 0
  /\ memLong' = [memLong EXCEPT ![StoreFor(agentCur)] = @ \cup {agentCur}]
  /\ finalKind' = "remember"
  /\ agentPc' = "emit"
  /\ UNCHANGED <<chanVars, subVars, prodVars, routerVars, histVars, agentCur,
                 iteration, toolRounds, toolCalls, session, wmMem,
                 memToday, writes>>
  /\ UNCHANGED mcpVars

\* the loop guard that stops at one invocation too many
BelowLimitOffByOne == iteration <= MaxToolIterations

\* the loop guard: another provider invocation is allowed
BelowLimit == iteration < MaxToolIterations

\* provider invocation answered with plain text (kind "text") or failing
\* (kind "error": the apology is the reply); the loop ends for this message
ProviderFinal(kind) ==
  /\ ~crashed
  /\ agentPc = "chat"
  /\ BelowLimit
  /\ iteration' = iteration + 1
  /\ finalKind' = kind
  /\ agentPc' = "emit"
  /\ UNCHANGED <<chanVars, subVars, prodVars, routerVars, histVars, agentCur,
                 toolRounds, toolCalls, session, memVars>>
  /\ UNCHANGED mcpVars

\* provider invocation answered with tool calls
ProviderToolCalls(calls) ==
  /\ ~crashed
  /\ agentPc = "chat"
  /\ BelowLimit
  /\ calls \in ToolCallSeqs(Visible)
  /\ iteration' = iteration + 1
  /\ toolRounds' = toolRounds + 1
  /\ toolCalls' = calls
  /\ agentPc' = "tools"
  /\ UNCHANGED <<chanVars, subVars, prodVars, routerVars, histVars, agentCur,
                 finalKind, session, memVars>>
  /\ UNCHANGED mcpVars

\* execute the calls in order, append each call and result to the session,
\* then invoke the provider again
ExecuteTools ==
  /\ ~crashed
  /\ agentPc = "tools"
  /\ LET st == RunTools(wmMem, MemState, toolCalls, agentCur)
     IN /\ memToday' = st.today
        /\ memLong' = st.long
        /\ writes' = st.writes
        /\ session' = [session EXCEPT ![ConvOf(agentCur)] = @ \cup st.sess]
  /\ toolCalls' = <<>>
  /\ agentPc' = "chat"
  /\ UNCHANGED <<chanVars, subVars, prodVars, routerVars, histVars, agentCur,
                 iteration, toolRounds, finalKind, wmMem>>
  /\ UNCHANGED mcpVars

\* maxToolIterations reached without a plain-text answer: the reply is the
\* limit diagnostic
LimitReached ==
  /\ ~crashed
  /\ agentPc = "chat"
  /\ ~BelowLimit
  /\ finalKind' = "limit"
  /\ agentPc' = "emit"
  /\ UNCHANGED <<chanVars, subVars, prodVars, routerVars, histVars, agentCur,
                 iteration, toolRounds, toolCalls, session, memVars>>
  /\ UNCHANGED mcpVars

\* emit the reply on Hub.Out without blocking: it is shed when Out is full;
\* a send on a closed channel panics
AgentEmit ==
  /\ ~crashed
  /\ agentPc = "emit"
  /\ IF outClosed
       THEN /\ crashed' = TRUE
            /\ UNCHANGED <<Out, lastReply, loopVars>>
       ELSE /\ lastReply' = [id |-> agentCur, kind |-> finalKind,
                             queued |-> Len(Out) < Buffer]
            /\ Out' = IF Len(Out) < Buffer THEN Append(Out, agentCur) ELSE Out
            /\ session' = [session EXCEPT ![ConvOf(agentCur)] = @ \cup {agentCur}]
            /\ agentPc' = "idle"
            /\ agentCur' = 0
            /\ finalKind' = "none"
            /\ UNCHANGED <<crashed, iteration, toolRounds, toolCalls>>
  /\ UNCHANGED <<In, inClosed, outClosed, closePc, ctxDone, subVars, prodVars,
                 routerVars, received, lastDrop, memVars>>
  /\ UNCHANGED mcpVars

(***************************************************************************)
(* Hub.Subscribe, Hub.StartRouter, Hub.Close and the subscribers.          *)
(***************************************************************************)
\* Subscribe(name): a new queue of capacity cap(h.Out) replaces whatever was
\* registered under name; the caller then loops on the queue
Subscribe(name) ==
  /\ ~crashed
  /\ nextSub < MaxSubs
  /\ nextSub' = nextSub + 1
  /\ subs' = [subs EXCEPT ![name] = nextSub + 1]
  /\ subName' = [subName EXCEPT ![nextSub + 1] = name]
  /\ consumerPc' = [consumerPc EXCEPT ![nextSub + 1] = "running"]
  /\ UNCHANGED <<chanVars, subQ, prodVars, routerVars, histVars, agentVars>>
  /\ UNCHANGED mcpVars

\* StartRouter: the router goroutine starts
StartRouter ==
  /\ ~crashed
  /\ routerPc = "unstarted"
  /\ routerPc' = "recv"
  /\ UNCHANGED <<chanVars, subVars, prodVars, routerMsg, routerCh, histVars,
                 agentVars>>
  /\ UNCHANGED mcpVars

\* a lookup that ignores the channel id: the queue registered last
LookupLatest(out) == nextSub

\* ch, exists := h.subs[out.Channel] (0: no subscriber)
Lookup(out) == subs[ChannelOf(out)]

\* case out, ok := <-h.Out: look the subscriber up; without one the message
\* is dropped with a warning and the loop goes on
RouterRecv ==
  /\ ~crashed
  /\ routerPc = "recv"
  /\ Out # <<>>
  /\ Out' = Tail(Out)
  /\ IF Lookup(Head(Out)) # 0
       THEN /\ routerPc' = "send"
            /\ routerMsg' = Head(Out)
            /\ routerCh' = Lookup(Head(Out))
            /\ UNCHANGED lastDrop
       ELSE /\ lastDrop' = [id |-> Head(Out), why |-> "nosub"]
            /\ UNCHANGED routerVars
  /\ UNCHANGED <<In, inClosed, outClosed, closePc, ctxDone, crashed, subVars,
                 prodVars, received, lastReply, agentVars>>
  /\ UNCHANGED mcpVars

\* select { case ch <- out: ; case <-ctx.Done(): return }: the forward waits
\* for room in the subscriber queue
RouterSend ==
  /\ ~crashed
  /\ routerPc = "send"
  /\ Len(subQ[routerCh]) < Buffer
  /\ subQ' = [subQ EXCEPT ![routerCh] = Append(@, routerMsg)]
  /\ routerPc' = "recv"
  /\ routerMsg' = 0
  /\ routerCh' = 0
  /\ UNCHANGED <<chanVars, subs, subName, nextSub, consumerPc, prodVars,
                 histVars, agentVars>>
  /\ UNCHANGED mcpVars

\* the router returns on ctx.Done() (dropping a message it holds) or when Out
\* is closed and drained
RouterExit ==
  /\ ~crashed
  /\ \/ routerPc \in {"recv", "send"} /\ ctxDone
     \/ routerPc = "recv" /\ outClosed /\ Out = <<>>
  /\ routerPc' = "exited"
  /\ routerMsg' = 0
  /\ routerCh' = 0
  /\ lastDrop' = IF routerPc = "send" THEN [id |-> routerMsg, why |-> "cancelled"]
                                       ELSE lastDrop
  /\ UNCHANGED <<chanVars, subVars, prodVars, received, lastReply, agentVars>>
  /\ UNCHANGED mcpVars

\* whether subscriber queue q has been closed: no statement of the hub closes
\* a queue made by Subscribe (Close closes In and Out only)
SubClosed(q) == FALSE

\* a subscriber's loop: case msg, ok := <-outbound; it ends when the queue
\* reports end-of-stream
Consume(q) ==
  /\ ~crashed
  /\ consumerPc[q] = "running"
  /\ IF subQ[q] # <<>>
       THEN /\ subQ' = [subQ EXCEPT ![q] = Tail(@)]
            /\ UNCHANGED consumerPc
       ELSE /\ SubClosed(q)
            /\ consumerPc' = [consumerPc EXCEPT ![q] = "ended"]
            /\ UNCHANGED subQ
  /\ UNCHANGED <<chanVars, subs, subName, nextSub, prodVars, routerVars,
                 histVars, agentVars>>
  /\ UNCHANGED mcpVars

\* the consumer stops draining while its subscription stays registered (the
\* stream handler returns on r.Context().Done(): the web client went away)
ConsumerStop(q) ==
  /\ ~crashed
  /\ consumerPc[q] = "running"
  /\ subName[q] = "web"
  /\ consumerPc' = [consumerPc EXCEPT ![q] = "stopped"]
  /\ UNCHANGED <<chanVars, subs, subQ, subName, nextSub, prodVars, routerVars,
                 histVars, agentVars>>
  /\ UNCHANGED mcpVars

\* the process context is cancelled
Cancel ==
  /\ ~crashed
  /\ ~ctxDone
  /\ ctxDone' = TRUE
  /\ UNCHANGED <<In, Out, inClosed, outClosed, closePc, crashed, subVars,
                 prodVars, routerVars, histVars, agentVars>>
  /\ UNCHANGED mcpVars

\* Hub.Close, first statement: close(h.In); closing a closed channel panics
CloseIn ==
  /\ ~crashed
  /\ closePc = "none"
  /\ IF inClosed
       THEN crashed' = TRUE /\ UNCHANGED <<inClosed, closePc>>
       ELSE inClosed' = TRUE /\ closePc' = "mid" /\ UNCHANGED crashed
  /\ UNCHANGED <<In, Out, outClosed, ctxDone, subVars, prodVars, routerVars,
                 histVars, agentVars>>
  /\ UNCHANGED mcpVars

\* Hub.Close, second statement: close(h.Out)
CloseOut ==
  /\ ~crashed
  /\ closePc = "mid"
  /\ outClosed' = TRUE
  /\ closePc' = "none"
  /\ UNCHANGED <<In, Out, inClosed, ctxDone, crashed, subVars, prodVars,
                 routerVars, histVars, agentVars>>
  /\ UNCHANGED mcpVars

\* an adapter that reads Hub.Out directly (single-channel mode, no router)
DirectRead ==
  /\ ~crashed
  /\ routerPc = "unstarted"
  /\ Out # <<>>
  /\ Out' = Tail(Out)
  /\ UNCHANGED <<In, inClosed, outClosed, closePc, ctxDone, crashed, subVars,
                 prodVars, routerVars, histVars, agentVars>>
  /\ UNCHANGED mcpVars

(***************************************************************************)
(* MCP stdio transport: Calls register in the pending table, write their   *)
(* request to the child's stdin and wait; one reader goroutine reads the   *)
(* child's stdout and hands each response to the Call of its id.           *)
(***************************************************************************)
\* a counter read and written in two steps: a caller that read it before
\* another one wrote it back draws the id that one drew
NextRequestIDRacy == IF requestIDCounter = 0 THEN 1 ELSE requestIDCounter

\* nextRequestID: atomic.AddInt64(&requestIDCounter, 1)
NextRequestID == requestIDCounter + 1

\* a Call holds an entry of the pending table from its insert to its delete
Registered(c) == callPc[c] \in {"send", "failed", "wait"}

\* a Call that does not look at the closed flag before it draws its id
CallStartUnchecked(c) ==
  /\ callPc[c] = "idle"
  /\ requestIDCounter < MaxCalls
  /\ requestIDCounter' = NextRequestID
  /\ callId' = [callId EXCEPT ![c] = NextRequestID]
  /\ callPc' = [callPc EXCEPT ![c] = "alloc"]
  /\ UNCHANGED <<callResult, pending, done, childVars, readerVars, notifyVars,
                 restVars>>

\* Call, up to the request id: a closed transport is refused, otherwise the
\* request gets the next id
CallStart(c) ==
  /\ callPc[c] = "idle"
  /\ IF closed
       THEN /\ callPc' = [callPc EXCEPT ![c] = "returned"]
            /\ callResult' = [callResult EXCEPT ![c] = <<"closed", 0>>]
            /\ UNCHANGED <<requestIDCounter, callId>>
       ELSE /\ requestIDCounter < MaxCalls
            /\ requestIDCounter' = NextRequestID
            /\ callId' = [callId EXCEPT ![c] = NextRequestID]
            /\ callPc' = [callPc EXCEPT ![c] = "alloc"]
            /\ UNCHANGED callResult
  /\ UNCHANGED <<pending, done, childVars, readerVars, notifyVars, restVars>>

\* Call, under the mutex: closed is checked again, then t.pending[req.ID] = call
\* with a fresh done queue
CallRegister(c) ==
  /\ callPc[c] = "alloc"
  /\ IF closed
       THEN /\ callPc' = [callPc EXCEPT ![c] = "returned"]
            /\ callResult' = [callResult EXCEPT ![c] = <<"closed", 0>>]
            /\ UNCHANGED pending
       ELSE /\ pending' = [pending EXCEPT ![callId[c]] = c]
            /\ callPc' = [callPc EXCEPT ![c] = "send"]
            /\ UNCHANGED callResult
  /\ UNCHANGED <<requestIDCounter, callId, done, childVars, readerVars,
                 notifyVars, restVars>>

\* Call, under the mutex: Write and Flush of the framed request; the frame
\* reaches the child when its stdin is open and the child is running,
\* otherwise the write or the flush fails
CallSend(c) ==
  /\ callPc[c] = "send"
  /\ IF stdinOpen /\ childUp
       THEN /\ wire' = wire \cup {callId[c]}
            /\ callPc' = [callPc EXCEPT ![c] = "wait"]
            /\ UNCHANGED callResult
       ELSE /\ \E kind \in {"write", "flush"} :
                 callResult' = [callResult EXCEPT ![c] = <<kind, 0>>]
            /\ callPc' = [callPc EXCEPT ![c] = "failed"]
            /\ UNCHANGED wire
  /\ UNCHANGED <<requestIDCounter, callId, pending, done, closed, stdinOpen,
                 childUp, stdoutQ, serverSent, closeVars, readerVars,
                 notifyVars, restVars>>

\* a failure path that returns without its delete
CallCleanupLeak(c) ==
  /\ callPc[c] = "failed"
  /\ callPc' = [callPc EXCEPT ![c] = "returned"]
  /\ UNCHANGED <<requestIDCounter, callId, callResult, pending, done, childVars,
                 readerVars, notifyVars, restVars>>

\* Call after a failed write or flush: delete(t.pending, req.ID) under the
\* mutex, then return the error
CallCleanup(c) ==
  /\ callPc[c] = "failed"
  /\ pending' = [pending EXCEPT ![callId[c]] = 0]
  /\ callPc' = [callPc EXCEPT ![c] = "returned"]
  /\ UNCHANGED <<requestIDCounter, callId, callResult, done, childVars,
                 readerVars, notifyVars, restVars>>

\* Call, case resp := <-call.done: delete the entry, return the response
CallResponse(c) ==
  /\ callPc[c] = "wait"
  /\ done[c] # <<>>
  /\ callResult' = [callResult EXCEPT ![c] = <<"response", Head(done[c])>>]
  /\ done' = [done EXCEPT ![c] = Tail(@)]
  /\ pending' = [pending EXCEPT ![callId[c]] = 0]
  /\ callPc' = [callPc EXCEPT ![c] = "returned"]
  /\ UNCHANGED <<requestIDCounter, callId, childVars, readerVars, notifyVars,
                 restVars>>

\* Call, case <-ctx.Done(): delete the entry, return the timeout error
CallCtxDone(c) ==
  /\ callPc[c] = "wait"
  /\ callResult' = [callResult EXCEPT ![c] = <<"timeout", 0>>]
  /\ pending' = [pending EXCEPT ![callId[c]] = 0]
  /\ callPc' = [callPc EXCEPT ![c] = "returned"]
  /\ UNCHANGED <<requestIDCounter, callId, done, childVars, readerVars,
                 notifyVars, restVars>>

\* the child writes a line to its stdout: a response carrying id m (whether
\* or not a request of that id is outstanding) or, with m = 0, a message
\* without an id (a notification)
ServerEmit(m) ==
  /\ childUp
  /\ serverSent < MaxServerMsgs
  /\ Len(stdoutQ) < MaxPipe
  /\ stdoutQ' = Append(stdoutQ, m)
  /\ serverSent' = serverSent + 1
  /\ UNCHANGED <<callVars, closed, stdinOpen, childUp, wire, closeVars,
                 readerVars, notifyVars, restVars>>

\* the child process exits on its own
ChildExit ==
  /\ childUp
  /\ childUp' = FALSE
  /\ UNCHANGED <<callVars, closed, stdinOpen, wire, stdoutQ, serverSent,
                 closeVars, readerVars, notifyVars, restVars>>

\* readResponses, top of the loop: return when closed, otherwise block in
\* ReadString
ReaderTop ==
  /\ readerPc = "top"
  /\ readerPc' = IF closed THEN "exited" ELSE "reading"
  /\ UNCHANGED <<callVars, childVars, readerResp, readerCall, notifyVars, restVars>>

\* a lookup that ignores the id: the entry of the lowest pending id
DemuxFirst(id) ==
  IF \E i \in ReqIds : pending[i] # 0
    THEN pending[CHOOSE i \in ReqIds : pending[i] # 0 /\
                   \A j \in ReqIds : pending[j] # 0 => i <= j]
    ELSE 0

\* call, ok := t.pending[resp.ID] (0: no entry)
Demux(id) == IF id \in ReqIds THEN pending[id] ELSE 0

\* readResponses, one line read: a message without an id is logged and
\* skipped; a response is looked up in the pending table under the mutex and
\* skipped ("unexpected response ID") when no entry has its id
ReaderRead ==
  /\ readerPc = "reading"
  /\ stdoutQ # <<>>
  /\ stdoutQ' = Tail(stdoutQ)
  /\ IF Head(stdoutQ) # 0 /\ Demux(Head(stdoutQ)) # 0
       THEN /\ readerPc' = "dispatch"
            /\ readerResp' = Head(stdoutQ)
            /\ readerCall' = Demux(Head(stdoutQ))
       ELSE /\ readerPc' = "top"
            /\ UNCHANGED <<readerResp, readerCall>>
  /\ UNCHANGED <<callVars, closed, stdinOpen, childUp, wire, serverSent,
                 closeVars, notifyVars, restVars>>

\* readResponses, select { case call.done <- &resp: ; default: }: the response
\* goes to the looked-up Call's queue unless that queue is full
ReaderDispatch ==
  /\ readerPc = "dispatch"
  /\ done' = IF Len(done[readerCall]) < 1
               THEN [done EXCEPT ![readerCall] = Append(@, readerResp)]
               ELSE done
  /\ readerPc' = "top"
  /\ readerResp' = 0
  /\ readerCall' = 0
  /\ UNCHANGED <<requestIDCounter, callPc, callId, callResult, pending,
                 childVars, notifyVars, restVars>>

\* readResponses, ReadString fails: the child's stdout is at end of stream
ReaderEOF ==
  /\ readerPc = "reading"
  /\ ~childUp
  /\ stdoutQ = <<>>
  /\ readerPc' = "exited"
  /\ UNCHANGED <<callVars, childVars, readerResp, readerCall, notifyVars, restVars>>

\* SendNotification, first statement: a closed transport is refused
NotifyStart(n) ==
  /\ notifPc[n] = "idle"
  /\ IF closed
       THEN /\ notifPc' = [notifPc EXCEPT ![n] = "returned"]
            /\ notifResult' = [notifResult EXCEPT ![n] = "closed"]
       ELSE /\ notifPc' = [notifPc EXCEPT ![n] = "lock"]
            /\ UNCHANGED notifResult
  /\ UNCHANGED <<notifFrames, callVars, childVars, readerVars, restVars>>

\* SendNotification, under the mutex: closed is checked again, then Write and
\* Flush of the frame, which has no id and gets no entry of the pending table
NotifySend(n) ==
  /\ notifPc[n] = "lock"
  /\ notifPc' = [notifPc EXCEPT ![n] = "returned"]
  /\ IF closed
       THEN /\ notifResult' = [notifResult EXCEPT ![n] = "closed"]
            /\ UNCHANGED notifFrames
       ELSE IF stdinOpen /\ childUp
         THEN /\ notifResult' = [notifResult EXCEPT ![n] = "nil"]
              /\ notifFrames' = notifFrames + 1
         ELSE /\ notifResult' = [notifResult EXCEPT ![n] = "write"]
              /\ UNCHANGED notifFrames
  /\ UNCHANGED <<callVars, childVars, readerVars, restVars>>

\* a Close that tests the flag and sets it in two statements: a second Close
\* that read the flag before the first one set it runs the shutdown again
StdioCloseNoCAS(k) ==
  /\ stdioClosePc[k] = "none"
  /\ closed' = TRUE
  /\ closeWon' = [closeWon EXCEPT ![k] = TRUE]
  /\ stdinOpen' = FALSE
  /\ stdinCloses' = stdinCloses + 1
  /\ stdioClosePc' = [stdioClosePc EXCEPT ![k] = "reap"]
  /\ UNCHANGED <<callVars, childUp, wire, stdoutQ, serverSent, reaps,
                 readerVars, notifyVars, restVars>>

\* Close: closed.CompareAndSwap(false, true); the Close that loses returns
\* nil at once, the one that wins closes the stdin pipe
StdioClose(k) ==
  /\ stdioClosePc[k] = "none"
  /\ IF closed
       THEN /\ stdioClosePc' = [stdioClosePc EXCEPT ![k] = "returned"]
            /\ UNCHANGED <<closed, closeWon, stdinOpen, stdinCloses>>
       ELSE /\ closed' = TRUE
            /\ closeWon' = [closeWon EXCEPT ![k] = TRUE]
            /\ stdinOpen' = FALSE
            /\ stdinCloses' = stdinCloses + 1
            /\ stdioClosePc' = [stdioClosePc EXCEPT ![k] = "reap"]
  /\ UNCHANGED <<callVars, childUp, wire, stdoutQ, serverSent, reaps,
                 readerVars, notifyVars, restVars>>

\* a Close that goes on to the reader without waiting for the child
StdioCloseNoReap(k) ==
  /\ stdioClosePc[k] = "reap"
  /\ stdioClosePc' = [stdioClosePc EXCEPT ![k] = "returned"]
  /\ UNCHANGED <<callVars, closed, stdinOpen, childUp, wire, stdoutQ,
                 serverSent, closeWon, stdinCloses, reaps, readerVars,
                 notifyVars, restVars>>

\* Close: cmd.Wait returns, after Process.Kill when the grace period ran out
StdioCloseReap(k) ==
  /\ stdioClosePc[k] = "reap"
  /\ childUp' = FALSE
  /\ reaps' = reaps + 1
  /\ stdioClosePc' = [stdioClosePc EXCEPT ![k] = "join"]
  /\ UNCHANGED <<callVars, closed, stdinOpen, wire, stdoutQ, serverSent,
                 closeWon, stdinCloses, readerVars, notifyVars, restVars>>

\* Close: <-t.readerDone, then return nil
StdioCloseJoin(k) ==
  /\ stdioClosePc[k] = "join"
  /\ readerPc = "exited"
  /\ stdioClosePc' = [stdioClosePc EXCEPT ![k] = "returned"]
  /\ UNCHANGED <<callVars, closed, stdinOpen, childUp, wire, stdoutQ,
                 serverSent, closeWon, stdinCloses, reaps, readerVars,
                 notifyVars, restVars>>

(***************************************************************************)
(* MCP HTTP transport (mcp.HTTPTransport): Call and SendNotification POST  *)
(* to <baseURL>/mcp, StartEventStream GETs it, Close DELETEs the session.  *)
(***************************************************************************)
\* the stdio transport's variables an HTTP operation never touches
stdioOwnVars == <<callPc, callId, callResult, pending, done, childVars,
                  readerVars, notifyVars>>

\* HTTP statuses a server answers with
PostStatuses == {200, 202, 500}
GetStatuses == {200, 405, 500}

\* bodies of a POST response as handleJSONResponse sees them: text that is
\* not JSON, or a JSON-RPC response <<kind, id>> with a result or an error
\* object (id 0: an id other than the request's, or none)
JsonBodies(id) == {<<"garbage", 0>>, <<"result", id>>, <<"error", id>>,
                   <<"result", 0>>, <<"error", 0>>}

\* handleJSONResponse: parse, compare the id with the request's, then the
\* error object, then the result; the HTTP status is not looked at
HandleJSONResponse(status, body, expectedID) ==
  IF body[1] = "garbage" THEN "parse"
  ELSE IF body[2] # expectedID THEN "id"
  ELSE IF body[1] = "error" THEN "rpc"
  ELSE "ok"

\* the lines of an event stream, <<field, event id, body kind, body id>>: an
\* "id:" line (event id 0: the value is empty), or a "data:" line holding a
\* JSON body or nothing
SseLines(id) ==
  {<<"id", e, "", 0>> : e \in EventIds \cup {0}} \cup
  {<<"data", 0, b[1], b[2]>> : b \in JsonBodies(id)} \cup
  {<<"data", 0, "empty", 0>>}

\* Call, up to the request id: a closed transport is refused
HttpCallStart(r) ==
  /\ hPc[r] = "idle"
  /\ hKind' = [hKind EXCEPT ![r] = "call"]
  /\ IF hClosed
       THEN /\ hPc' = [hPc EXCEPT ![r] = "returned"]
            /\ hResult' = [hResult EXCEPT ![r] = <<"closed", 0>>]
            /\ UNCHANGED <<requestIDCounter, hId>>
       ELSE /\ requestIDCounter < MaxCalls
            /\ requestIDCounter' = NextRequestID
            /\ hId' = [hId EXCEPT ![r] = NextRequestID]
            /\ hPc' = [hPc EXCEPT ![r] = "alloc"]
            /\ UNCHANGED hResult
  /\ UNCHANGED <<hSession, hLastEventID, hClosed, hLinesRead, hLog, hSrvSet,
                 hCallSet, hIdRead, hStream, hClosePc, stdioOwnVars, outerVars,
                 mgrVars>>

\* SendNotification, first statement: a closed transport is refused
HttpNotifyStart(r) ==
  /\ hPc[r] = "idle"
  /\ hKind' = [hKind EXCEPT ![r] = "notify"]
  /\ IF hClosed
       THEN /\ hPc' = [hPc EXCEPT ![r] = "returned"]
            /\ hResult' = [hResult EXCEPT ![r] = <<"closed", 0>>]
       ELSE /\ hPc' = [hPc EXCEPT ![r] = "alloc"]
            /\ UNCHANGED hResult
  /\ UNCHANGED <<hSession, hLastEventID, hClosed, hId, hLinesRead, hLog, hSrvSet,
                 hCallSet, hIdRead, hStream, hClosePc, stdioVars, outerVars,
                 mgrVars>>

\* a transport that keeps the first session id it was given
StoreSessionOnce(sess) == IF hSession = 0 THEN sess ELSE hSession

\* if respSessionID != "" { t.sessionID = respSessionID }
StoreSession(sess) == IF sess # 0 THEN sess ELSE hSession

\* sessionID read under the read lock: the header the request carries
SessionHeader == hSession

\* Call and SendNotification: the request is built with the session header
\* and handed to client.Do
HttpPost(r) ==
  /\ hPc[r] = "alloc"
  /\ hLog' = Append(hLog, <<"POST", SessionHeader, 0>>)
  /\ hPc' = [hPc EXCEPT ![r] = "sent"]
  /\ UNCHANGED <<hSession, hLastEventID, hClosed, hKind, hId, hLinesRead, hResult,
                 hSrvSet, hCallSet, hIdRead, hStream, hClosePc, stdioVars,
                 outerVars, mgrVars>>

\* client.Do fails (no response): the operation returns the error
HttpDoError(r) ==
  /\ hPc[r] = "sent"
  /\ hPc' = [hPc EXCEPT ![r] = "returned"]
  /\ hResult' = [hResult EXCEPT ![r] = <<"transport", 0>>]
  /\ UNCHANGED <<hSession, hLastEventID, hClosed, hKind, hId, hLinesRead, hLog,
                 hSrvSet, hCallSet, hIdRead, hStream, hClosePc, stdioVars,
                 outerVars, mgrVars>>

\* Call, response received with a JSON (or unnamed) content type: a session
\* header is stored, then handleJSONResponse decides what Call returns
HttpCallRecv(r, status, sess, body) ==
  /\ hPc[r] = "sent"
  /\ hKind[r] = "call"
  /\ hSession' = StoreSession(sess)
  /\ hSrvSet' = IF sess # 0 THEN sess ELSE hSrvSet
  /\ hCallSet' = IF sess # 0 THEN sess ELSE hCallSet
  /\ hResult' = [hResult EXCEPT
                   ![r] = <<HandleJSONResponse(status, body, hId[r]), status>>]
  /\ hPc' = [hPc EXCEPT ![r] = "returned"]
  /\ UNCHANGED <<hLastEventID, hClosed, hKind, hId, hLinesRead, hLog, hIdRead,
                 hStream, hClosePc, stdioVars, outerVars, mgrVars>>

\* Call, response received with content type text/event-stream: a session
\* header is stored, then handleSSEResponse reads the stream
HttpCallRecvSSE(r, status, sess) ==
  /\ hPc[r] = "sent"
  /\ hKind[r] = "call"
  /\ hSession' = StoreSession(sess)
  /\ hSrvSet' = IF sess # 0 THEN sess ELSE hSrvSet
  /\ hCallSet' = IF sess # 0 THEN sess ELSE hCallSet
  /\ hResult' = [hResult EXCEPT ![r] = <<"none", status>>]
  /\ hPc' = [hPc EXCEPT ![r] = "sse"]
  /\ UNCHANGED <<hLastEventID, hClosed, hKind, hId, hLinesRead, hLog, hIdRead,
                 hStream, hClosePc, stdioVars, outerVars, mgrVars>>

\* an "id:" line that is stored only when no event id is stored yet
StoreEventIDFirst(e) == IF hLastEventID = 0 THEN e ELSE hLastEventID

\* t.lastEventID = eventID under the lock
StoreEventID(e) == e

\* handleSSEResponse, one line read: an "id:" line is stored; a "data:" line
\* that is the response with the request's id ends the Call; anything else
\* is skipped
HttpSseRead(r, line) ==
  /\ hPc[r] = "sse"
  /\ hLinesRead[r] < MaxSseLines
  /\ hLinesRead' = [hLinesRead EXCEPT ![r] = @ + 1]
  /\ IF line[1] = "id"
       THEN /\ hLastEventID' = StoreEventID(line[2])
            /\ hIdRead' = line[2]
            /\ UNCHANGED <<hPc, hResult>>
       ELSE /\ UNCHANGED <<hLastEventID, hIdRead>>
            /\ IF line[3] \in {"result", "error"} /\ line[4] = hId[r]
                 THEN /\ hPc' = [hPc EXCEPT ![r] = "returned"]
                      /\ hResult' = [hResult EXCEPT ![r] =
                           <<IF line[3] = "error" THEN "rpc" ELSE "ok",
                             hResult[r][2]>>]
                 ELSE UNCHANGED <<hPc, hResult>>
  /\ UNCHANGED <<hSession, hClosed, hKind, hId, hLog, hSrvSet, hCallSet,
                 hStream, hClosePc, stdioVars, outerVars, mgrVars>>

\* handleSSEResponse, ReadString returns io.EOF: the stream ended without the
\* response, Call fails with "no response received in SSE stream"
HttpSseEOF(r) ==
  /\ hPc[r] = "sse"
  /\ hPc' = [hPc EXCEPT ![r] = "returned"]
  /\ hResult' = [hResult EXCEPT ![r] = <<"nostream", hResult[r][2]>>]
  /\ UNCHANGED <<hSession, hLastEventID, hClosed, hKind, hId, hLinesRead, hLog,
                 hSrvSet, hCallSet, hIdRead, hStream, hClosePc, stdioVars,
                 outerVars, mgrVars>>

\* handleSSEResponse, case <-ctx.Done()
HttpSseTimeout(r) ==
  /\ hPc[r] = "sse"
  /\ hPc' = [hPc EXCEPT ![r] = "returned"]
  /\ hResult' = [hResult EXCEPT ![r] = <<"timeout", hResult[r][2]>>]
  /\ UNCHANGED <<hSession, hLastEventID, hClosed, hKind, hId, hLinesRead, hLog,
                 hSrvSet, hCallSet, hIdRead, hStream, hClosePc, stdioVars,
                 outerVars, mgrVars>>

\* SendNotification, response received: 200 and 202 are accepted, any other
\* status is an error; the response's headers are not read
HttpNotifyRecv(r, status, sess) ==
  /\ hPc[r] = "sent"
  /\ hKind[r] = "notify"
  /\ hSrvSet' = IF sess # 0 THEN sess ELSE hSrvSet
  /\ hResult' = [hResult EXCEPT
                   ![r] = <<IF status \in {200, 202} THEN "nil" ELSE "status",
                            status>>]
  /\ hPc' = [hPc EXCEPT ![r] = "returned"]
  /\ UNCHANGED <<hSession, hLastEventID, hClosed, hKind, hId, hLinesRead, hLog,
                 hCallSet, hIdRead, hStream, hClosePc, stdioVars, outerVars,
                 mgrVars>>

\* StartEventStream: a closed transport is refused; otherwise the GET carries
\* the session header and, when an event id is stored, Last-Event-ID
HttpGetStart(r) ==
  /\ hPc[r] = "idle"
  /\ hKind' = [hKind EXCEPT ![r] = "get"]
  /\ IF hClosed
       THEN /\ hPc' = [hPc EXCEPT ![r] = "returned"]
            /\ hResult' = [hResult EXCEPT ![r] = <<"closed", 0>>]
            /\ UNCHANGED hLog
       ELSE /\ hLog' = Append(hLog, <<"GET", hSession, hLastEventID>>)
            /\ hPc' = [hPc EXCEPT ![r] = "sent"]
            /\ UNCHANGED hResult
  /\ UNCHANGED <<hSession, hLastEventID, hClosed, hId, hLinesRead, hSrvSet,
                 hCallSet, hIdRead, hStream, hClosePc, stdioVars, outerVars,
                 mgrVars>>

\* StartEventStream, response received: 200 starts the goroutine
\* readSSEEvents, any other status is an error
HttpGetRecv(r, status) ==
  /\ hPc[r] = "sent"
  /\ hKind[r] = "get"
  /\ hStream' = (hStream \/ status = 200)
  /\ hResult' = [hResult EXCEPT
                   ![r] = <<IF status = 200 THEN "nil" ELSE "status", status>>]
  /\ hPc' = [hPc EXCEPT ![r] = "returned"]
  /\ UNCHANGED <<hSession, hLastEventID, hClosed, hKind, hId, hLinesRead, hLog,
                 hSrvSet, hCallSet, hIdRead, hClosePc, stdioVars, outerVars,
                 mgrVars>>

\* readSSEEvents: an "id:" line of the GET stream is stored
StreamReadId(e) ==
  /\ hStream
  /\ hLastEventID' = StoreEventID(e)
  /\ hIdRead' = e
  /\ UNCHANGED <<hSession, hClosed, hPc, hKind, hId, hLinesRead, hResult, hLog,
                 hSrvSet, hCallSet, hStream, hClosePc, stdioVars, outerVars,
                 mgrVars>>

\* Close: closed.CompareAndSwap(false, true); the Close that loses returns nil
HttpClose(k) ==
  /\ hClosePc[k] = "none"
  /\ IF hClosed
       THEN /\ hClosePc' = [hClosePc EXCEPT ![k] = "returned"]
            /\ UNCHANGED hClosed
       ELSE /\ hClosed' = TRUE
            /\ hClosePc' = [hClosePc EXCEPT ![k] = "delete"]
  /\ UNCHANGED <<hSession, hLastEventID, hPc, hKind, hId, hLinesRead, hResult,
                 hLog, hSrvSet, hCallSet, hIdRead, hStream, stdioVars,
                 outerVars, mgrVars>>

\* Close: sessionID is read under the read lock; when it is not empty a
\* DELETE <baseURL>/mcp carrying it is sent; nil is returned either way
HttpCloseDelete(k) ==
  /\ hClosePc[k] = "delete"
  /\ hLog' = IF hSession # 0
               THEN Append(hLog, <<"DELETE", hSession, 0>>)
               ELSE hLog
  /\ hClosePc' = [hClosePc EXCEPT ![k] = "returned"]
  /\ UNCHANGED <<hSession, hLastEventID, hClosed, hPc, hKind, hId, hLinesRead,
                 hResult, hSrvSet, hCallSet, hIdRead, hStream, stdioVars,
                 outerVars, mgrVars>>

(***************************************************************************)
(* MCP manager (mcp.Manager) and the registration of its tools in the      *)
(* agent's tool registry (tools.MCPToolAdapter).                           *)
(***************************************************************************)
\* ConnectServer, NewClient(cfg): a configuration with neither URL nor
\* command, or a child that does not start, returns the error
NewClient(name, ok) ==
  /\ connPc[name] = "new"
  /\ connPc' = [connPc EXCEPT ![name] = IF ok THEN "client" ELSE "failed"]
  /\ UNCHANGED <<mTools, regTools, usage, connects, execPc, execKey,
                 execResult, okReturns, connSent, initResult, listResult,
                 stdioVars, httpVars, outerVars>>

\* Client.Initialize: c.transport.Call(ctx, "initialize", params)
InitializeCall(name) ==
  /\ connPc[name] = "client"
  /\ connPc' = [connPc EXCEPT ![name] = "initializing"]
  /\ connSent' = [connSent EXCEPT ![name] = Append(@, "initialize")]
  /\ UNCHANGED <<mTools, regTools, usage, connects, execPc, execKey,
                 execResult, okReturns, initResult, listResult, stdioVars,
                 httpVars, outerVars>>

\* an Initialize that goes on to the notification whatever Call returned
InitializeReturnUnchecked(name, outcome) ==
  /\ connPc[name] = "initializing"
  /\ initResult' = [initResult EXCEPT ![name] = outcome]
  /\ connPc' = [connPc EXCEPT ![name] = "notify"]
  /\ UNCHANGED <<mTools, regTools, usage, connects, execPc, execKey,
                 execResult, okReturns, connSent, listResult, stdioVars,
                 httpVars, outerVars>>

\* Client.Initialize: the Call has returned; an error of the Call and a
\* result that does not parse return the error, and ConnectServer closes the
\* client and returns
InitializeReturn(name, outcome) ==
  /\ connPc[name] = "initializing"
  /\ initResult' = [initResult EXCEPT ![name] = outcome]
  /\ connPc' = [connPc EXCEPT
                  ![name] = IF outcome = "ok" THEN "notify" ELSE "failed"]
  /\ UNCHANGED <<mTools, regTools, usage, connects, execPc, execKey,
                 execResult, okReturns, connSent, listResult, stdioVars,
                 httpVars, outerVars>>

\* Client.Initialize: SendNotification(ctx, "notifications/initialized", nil);
\* its error is logged and Initialize returns the result
InitializedNotify(name) ==
  /\ connPc[name] = "notify"
  /\ connPc' = [connPc EXCEPT ![name] = "list"]
  /\ connSent' = [connSent EXCEPT
                    ![name] = Append(@, "notifications/initialized")]
  /\ UNCHANGED <<mTools, regTools, usage, connects, execPc, execKey,
                 execResult, okReturns, initResult, listResult, stdioVars,
                 httpVars, outerVars>>

\* Client.ListTools: c.transport.Call(ctx, "tools/list", nil)
ListToolsCall(name) ==
  /\ connPc[name] = "list"
  /\ connPc' = [connPc EXCEPT ![name] = "listing"]
  /\ connSent' = [connSent EXCEPT ![name] = Append(@, "tools/list")]
  /\ UNCHANGED <<mTools, regTools, usage, connects, execPc, execKey,
                 execResult, okReturns, initResult, listResult, stdioVars,
                 httpVars, outerVars>>

\* Client.ListTools: the Call has returned; on an error ConnectServer closes
\* the client and returns
ListToolsReturn(name, outcome) ==
  /\ connPc[name] = "listing"
  /\ listResult' = [listResult EXCEPT ![name] = outcome]
  /\ connPc' = [connPc EXCEPT
                  ![name] = IF outcome = "ok" THEN "listed" ELSE "failed"]
  /\ UNCHANGED <<mTools, regTools, usage, connects, execPc, execKey,
                 execResult, okReturns, connSent, initResult, stdioVars,
                 httpVars, outerVars>>

\* ConnectServer after NewClient, Initialize and ListTools succeeded: under
\* the lock every listed tool is stored under its key, replacing an entry
\* that has the key already
ConnectServer(name, tools) ==
  /\ connPc[name] = "listed"
  /\ connects < MaxServers
  /\ \A t \in mTools : t[2] # name
  /\ connects' = connects + 1
  /\ connPc' = [connPc EXCEPT ![name] = "connected"]
  /\ LET keys == {ToolKey(name, tool) : tool \in tools} IN
       mTools' = {t \in mTools : t[1] \notin keys} \cup
                 {<<ToolKey(name, tool), name, tool>> : tool \in tools}
  /\ UNCHANGED <<regTools, usage, execPc, execKey, execResult, okReturns,
                 connSent, initResult, listResult, stdioVars, httpVars,
                 outerVars>>

\* RegisterMCPTools: every definition of Manager.GetAllTools is registered
\* under its key (Registry.Register overwrites), then the stats tool under
\* "mcp_stats"
RegisterMCPTools ==
  /\ <<"mcp_stats", "stats">> \notin regTools
  /\ LET keys == {t[1] : t \in mTools}
         afterTools == {x \in regTools : x[1] \notin keys} \cup
                       {<<k, "mcp">> : k \in keys}
     IN regTools' = {x \in afterTools : x[1] # "mcp_stats"} \cup
                    {<<"mcp_stats", "stats">>}
  /\ UNCHANGED <<mTools, usage, connects, execPc, execKey, execResult,
                 okReturns, stdioVars, httpVars, connVars,
                 outerVars>>

\* Manager.GetTool(key) # nil
HasTool(key) == \E t \in mTools : t[1] = key

\* ExecuteTool, GetTool: an unknown key returns "MCP tool not found"
ExecLookup(e, key) ==
  /\ execPc[e] = "idle"
  /\ execKey' = [execKey EXCEPT ![e] = key]
  /\ IF HasTool(key)
       THEN /\ execPc' = [execPc EXCEPT ![e] = "call"]
            /\ UNCHANGED execResult
       ELSE /\ execPc' = [execPc EXCEPT ![e] = "returned"]
            /\ execResult' = [execResult EXCEPT ![e] = "notfound"]
  /\ UNCHANGED <<mTools, regTools, usage, connects, okReturns, stdioVars,
                 httpVars, connVars,
                 outerVars>>

\* an ExecuteTool that counts the call before it looks at isError
CountsUnlessFailed(outcome) == outcome # "failed"

\* ExecuteTool reaches m.usage[toolKey]++ only past the err and the
\* result.IsError returns
Counts(outcome) == outcome = "ok"

\* ExecuteTool, tool.client.CallTool: the Call of "tools/call" on the
\* transport of the tool's server has returned; a failed call and a result
\* with isError set return an error
ExecCallTool(e, outcome) ==
  /\ execPc[e] = "call"
  /\ LET tool == CHOOSE t \in mTools : t[1] = execKey[e] IN
       connSent' = [connSent EXCEPT ![tool[2]] = Append(@, "tools/call")]
  /\ execResult' = [execResult EXCEPT ![e] = outcome]
  /\ execPc' = [execPc EXCEPT
                  ![e] = IF Counts(outcome) THEN "count" ELSE "returned"]
  /\ UNCHANGED <<mTools, regTools, usage, connects, execKey, okReturns,
                 stdioVars, httpVars, connPc,
                 initResult, listResult, outerVars>>

\* ExecuteTool: m.usage[toolKey]++ under the lock
ExecCount(e) ==
  /\ execPc[e] = "count"
  /\ usage' = [usage EXCEPT ![execKey[e]] = @ + 1]
  /\ execPc' = [execPc EXCEPT ![e] = "counted"]
  /\ UNCHANGED <<mTools, regTools, connects, execKey, execResult, okReturns,
                 stdioVars, httpVars, connVars,
                 outerVars>>

\* ExecuteTool returns the concatenated content
ExecReturn(e) ==
  /\ execPc[e] = "counted"
  /\ execPc' = [execPc EXCEPT ![e] = "returned"]
  /\ okReturns' = IF execResult[e] = "ok"
                    THEN [okReturns EXCEPT ![execKey[e]] = @ + 1]
                    ELSE okReturns
  /\ UNCHANGED <<mTools, regTools, usage, connects, execKey, execResult,
                 stdioVars, httpVars, connVars,
                 outerVars>>

(***************************************************************************)
(* Scheduler (internal/cron): a queue of jobs ordered by fire-at, one      *)
(* worker, Schedule / List / Cancel under mutual exclusion; and the cron   *)
(* API of the web server.                                                  *)
(***************************************************************************)
\* the subsystems beside the scheduler
notCronVars == <<chatVars, stdioVars, httpVars, mgrVars, discordVars, toolVars, moreVars>>

\* Scheduler.List()
List == jobs

\* the ids in the queue
QueuedIds == {j[1] : j \in jobs}

\* Schedule(job): the job is inserted under a fresh id
Schedule(routing, message, fireAt, recurring, interval) ==
  /\ nextJob < MaxJobs
  /\ LET job == <<nextJob + 1, routing[1], routing[2], message, fireAt,
                  recurring, interval>>
     IN /\ jobs' = jobs \cup {job}
        /\ scheduled' = [scheduled EXCEPT ![nextJob + 1] = job]
  /\ nextJob' = nextJob + 1
  /\ UNCHANGED <<cronNow, cronIn, cancelPc, cancelId, cancelResult,
                 cancelStatus, cancelLog, notCronVars>>

\* time passes
Tick ==
  /\ cronNow < MaxTime
  /\ cronNow' = cronNow + 1
  /\ UNCHANGED <<jobs, nextJob, scheduled, cronIn, cancelPc, cancelId,
                 cancelResult, cancelStatus, cancelLog, notCronVars>>

\* the jobs of the queue with the earliest fire-at
Earliest == {j \in jobs : \A o \in jobs : j[5] <= o[5]}

\* the job a recurring job is re-inserted as: fire-at + interval
Rescheduled(j) == <<j[1], j[2], j[3], j[4], j[5] + j[7], j[6], j[7]>>

\* a worker that leaves a fired one-shot job in the queue
WorkerFireKeeping(j) ==
  /\ j \in Earliest /\ j[5] <= cronNow
  /\ cronIn' = Append(cronIn, <<j[1], j[2], j[3], j[4], j[5]>>)
  /\ jobs' = IF j[6] THEN (jobs \ {j}) \cup {Rescheduled(j)} ELSE jobs
  /\ UNCHANGED <<cronNow, nextJob, scheduled, cancelPc, cancelId,
                 cancelResult, cancelStatus, cancelLog, notCronVars>>

\* the worker fires the earliest job once it is due: the job leaves the
\* queue, an inbound message with its routing and its message is produced,
\* and a recurring job is re-inserted
WorkerFire(j) ==
  /\ j \in Earliest /\ j[5] <= cronNow
  /\ cronIn' = Append(cronIn, <<j[1], j[2], j[3], j[4], j[5]>>)
  /\ jobs' = IF j[6] THEN (jobs \ {j}) \cup {Rescheduled(j)} ELSE jobs \ {j}
  /\ UNCHANGED <<cronNow, nextJob, scheduled, cancelPc, cancelId,
                 cancelResult, cancelStatus, cancelLog, notCronVars>>

\* Cancel(id): removes the job with this id and reports whether there was one
CancelJob(id) == id \in QueuedIds

\* DELETE /api/cron/<id>: scheduler.Cancel(id)
CronDeleteCancel(k, id) ==
  /\ cancelPc[k] = "idle"
  /\ cancelId' = [cancelId EXCEPT ![k] = id]
  /\ cancelResult' = [cancelResult EXCEPT ![k] = CancelJob(id)]
  /\ cancelLog' = Append(cancelLog, <<id, id \in QueuedIds, CancelJob(id)>>)
  /\ jobs' = {j \in jobs : j[1] # id}
  /\ cancelPc' = [cancelPc EXCEPT ![k] = "cancelled"]
  /\ UNCHANGED <<cronNow, nextJob, scheduled, cronIn, cancelStatus,
                 notCronVars>>

\* a handler that answers 200 whatever Cancel returned
DeleteStatusOK(removed) == 200

\* w.WriteHeader(http.StatusOK) if scheduler.Cancel(id), else
\* http.Error(w, "Not found", http.StatusNotFound)
DeleteStatus(removed) == IF removed THEN 200 ELSE 404

\* DELETE /api/cron/<id>: the answer
CronDeleteRespond(k) ==
  /\ cancelPc[k] = "cancelled"
  /\ cancelStatus' = [cancelStatus EXCEPT ![k] = DeleteStatus(cancelResult[k])]
  /\ cancelPc' = [cancelPc EXCEPT ![k] = "responded"]
  /\ UNCHANGED <<jobs, cronNow, nextJob, scheduled, cronIn, cancelId,
                 cancelResult, cancelLog, notCronVars>>

(***************************************************************************)
(* Discord adapter (internal/channels): the message handler of the         *)
(* discordgo client, the dispatch handler of the gateway client, and the   *)
(* typing indicators.                                                      *)
(***************************************************************************)
\* the subsystems beside the Discord adapter
notDiscordVars == <<chatVars, stdioVars, httpVars, mgrVars, cronVars, toolVars, moreVars>>

\* values of the environment variable PICOBOT_ALLOW_PUBLIC_CHANNELS
EnvValues == {"", "1", "true", "TRUE", " yes ", "On", "0", "false", "no"}

\* strings.ToLower(strings.TrimSpace(v)) on these values
LowerTrim(v) ==
  IF v = "TRUE" THEN "true"
  ELSE IF v = " yes " THEN "yes"
  ELSE IF v = "On" THEN "on"
  ELSE v

\* allowPublicChannels()
AllowPublicChannels(v) == LowerTrim(v) \in {"1", "true", "yes", "on"}

\* StartDiscord(ctx, hub, token, allowFrom) under environment value env: an
\* empty token and a session that does not open return an error; otherwise
\* the client is built with allowFrom as its allowed set, its handler is
\* registered and nil is returned
StartDiscord(token, allowFrom, env, opens) ==
  /\ dcStart = "none"
  /\ dcEnv' = env
  /\ IF token = ""
       THEN dcStart' = "discord token not provided" /\ UNCHANGED dcAllowed
       ELSE IF ~opens
         THEN dcStart' = "failed to open discord connection" /\ UNCHANGED dcAllowed
         ELSE dcStart' = "ok" /\ dcAllowed' = allowFrom
  /\ UNCHANGED <<dcEvents, dcLast, dcCtxDone, dcShutdown, dcReplies, typingVars,
                 notDiscordVars>>

\* an allowlist check that lets every sender through
AllowedAlways(author) == TRUE

\* the allowlist check of both handlers: a sender passes when allowed is
\* empty or has the sender's id
Allowed(author) == dcAllowed = {} \/ author \in dcAllowed

\* strings.ReplaceAll of both forms of the bot's mention
StripBot(content) == SelectSeq(content, LAMBDA x : x \notin {"<@bot>", "<@!bot>"})

\* cleanDiscordContent: every "<@...>" part is removed
CleanDiscordContent(content) ==
  SelectSeq(content, LAMBDA x : x \notin {"<@bot>", "<@!bot>", "<@u1>"})

\* the attachment references appended to the content
WithAttachments(content, att) ==
  IF att THEN Append(content, "[attachment]") ELSE content

\* discordClient.startTyping(channelID): under typingMu the channel's
\* indicator is stopped and replaced; a goroutine runs the new one
StartTyping(chat) ==
  /\ nextTask' = nextTask + 1
  /\ typingStop' = [typingStop EXCEPT ![chat] = nextTask + 1]
  /\ stopClosed' = IF typingStop[chat] # 0
                     THEN [stopClosed EXCEPT ![typingStop[chat]] = TRUE]
                     ELSE stopClosed
  /\ taskChat' = [taskChat EXCEPT ![nextTask + 1] = chat]
  /\ taskPc' = [taskPc EXCEPT ![nextTask + 1] = "started"]
  /\ UNCHANGED typingCalls

\* handleMessage (discordgo client): what it does with event e
HandleMessage(e) ==
  /\ dcStart = "ok"
  /\ dcEvents < MaxEvents
  /\ dcEvents' = dcEvents + 1
  /\ LET content == WithAttachments(IF e[4] THEN StripBot(e[6]) ELSE e[6], e[7])
         forwards == /\ ~e[2] /\ e[1] # BotID
                     /\ Allowed(e[1])
                     /\ (e[3] => e[4])
                     /\ content # <<>>
     IN IF forwards
          THEN /\ StartTyping(EventChannel(e))
               /\ dcLast' = <<"handleMessage", e, content, TRUE>>
          ELSE /\ dcLast' = <<"handleMessage", e, content, FALSE>>
               /\ UNCHANGED typingVars
  /\ UNCHANGED <<dcStart, dcEnv, dcAllowed, dcCtxDone, dcShutdown, dcReplies, notDiscordVars>>

\* msg.MessageReference != nil
Replies(reply) == reply # "none"

\* handleDispatch, case MESSAGE_CREATE (gateway client): what it does with
\* event e
HandleDispatch(e) ==
  /\ dcStart = "ok"
  /\ dcEvents < MaxEvents
  /\ dcEvents' = dcEvents + 1
  /\ LET content == CleanDiscordContent(IF e[3] THEN StripBot(e[6]) ELSE e[6])
         forwards == /\ ~e[2]
                     /\ Allowed(e[1])
                     /\ (e[3] => (e[4] \/ Replies(e[5])))
                     /\ content # <<>>
     IN dcLast' = <<"handleDispatch", e, content, forwards>>
  /\ UNCHANGED <<dcStart, dcEnv, dcAllowed, dcCtxDone, dcShutdown, dcReplies, typingVars,
                 notDiscordVars>>

\* the indicator goroutine starts: c.sender.ChannelTyping(channelID)
TypingBegin(t) ==
  /\ taskPc[t] = "started"
  /\ taskPc' = [taskPc EXCEPT ![t] = "running"]
  /\ typingCalls' = typingCalls + 1
  /\ UNCHANGED <<dcStart, dcEnv, dcAllowed, dcEvents, dcLast, dcCtxDone, dcShutdown, dcReplies,
                 typingStop, nextTask, taskChat, stopClosed, notDiscordVars>>

\* the indicator's select, case <-ticker.C
TypingTick(t) ==
  /\ taskPc[t] = "running"
  /\ typingCalls < nextTask + MaxTicks
  /\ typingCalls' = typingCalls + 1
  /\ UNCHANGED <<dcStart, dcEnv, dcAllowed, dcEvents, dcLast, dcCtxDone, dcShutdown, dcReplies,
                 typingStop, nextTask, taskChat, taskPc, stopClosed,
                 notDiscordVars>>

\* the indicator's select, cases <-stop and <-c.ctx.Done()
TypingStopped(t) ==
  /\ taskPc[t] = "running"
  /\ stopClosed[t] \/ dcCtxDone
  /\ taskPc' = [taskPc EXCEPT ![t] = "exited"]
  /\ UNCHANGED <<dcStart, dcEnv, dcAllowed, dcEvents, dcLast, dcCtxDone, dcShutdown, dcReplies,
                 typingStop, nextTask, taskChat, stopClosed, typingCalls,
                 notDiscordVars>>

\* the indicator's select, case <-timeout.C: five minutes have passed
TypingTimeout(t) ==
  /\ taskPc[t] = "running"
  /\ taskPc' = [taskPc EXCEPT ![t] = "exited"]
  /\ UNCHANGED <<dcStart, dcEnv, dcAllowed, dcEvents, dcLast, dcCtxDone, dcShutdown, dcReplies,
                 typingStop, nextTask, taskChat, stopClosed, typingCalls,
                 notDiscordVars>>

\* a stopTyping that forgets the indicator without stopping it
StopTypingForget(chat) ==
  /\ typingStop' = [typingStop EXCEPT ![chat] = 0]
  /\ UNCHANGED stopClosed

\* discordClient.stopTyping(channelID): close(stop) and delete, under typingMu
StopTyping(chat) ==
  /\ typingStop' = [typingStop EXCEPT ![chat] = 0]
  /\ stopClosed' = IF typingStop[chat] # 0
                     THEN [stopClosed EXCEPT ![typingStop[chat]] = TRUE]
                     ELSE stopClosed

\* runOutbound, case out := <-c.outCh: the indicator of the reply's chat is
\* stopped and the reply is sent
RunOutbound(chat) ==
  /\ Len(dcReplies) < MaxReplies
  /\ StopTyping(chat)
  /\ dcReplies' = Append(dcReplies, chat)
  /\ UNCHANGED <<dcStart, dcEnv, dcAllowed, dcEvents, dcLast, dcCtxDone, dcShutdown, nextTask,
                 taskChat, taskPc, typingCalls, notDiscordVars>>

\* the adapter's context is cancelled
DiscordCancel ==
  /\ ~dcCtxDone
  /\ dcCtxDone' = TRUE
  /\ UNCHANGED <<dcStart, dcEnv, dcAllowed, dcEvents, dcLast, dcShutdown, dcReplies, typingVars,
                 notDiscordVars>>

\* a stopAllTyping that closes every stop channel and keeps the map
DiscordShutdownKeep ==
  /\ dcCtxDone /\ ~dcShutdown
  /\ dcShutdown' = TRUE
  /\ stopClosed' = [t \in Tasks |->
                      stopClosed[t] \/ \E c \in Chats : typingStop[c] = t]
  /\ UNCHANGED <<dcStart, dcEnv, dcAllowed, dcEvents, dcLast, dcCtxDone, dcReplies, nextTask,
                 taskChat, taskPc, typingCalls, typingStop, notDiscordVars>>

\* StartDiscord's goroutine after <-ctx.Done(): stopAllTyping closes every
\* stop channel of the map and empties the map
DiscordShutdown ==
  /\ dcCtxDone /\ ~dcShutdown
  /\ dcShutdown' = TRUE
  /\ stopClosed' = [t \in Tasks |->
                      stopClosed[t] \/ \E c \in Chats : typingStop[c] = t]
  /\ typingStop' = [c \in Chats |-> 0]
  /\ UNCHANGED <<dcStart, dcEnv, dcAllowed, dcEvents, dcLast, dcCtxDone, dcReplies, nextTask,
                 taskChat, taskPc, typingCalls, notDiscordVars>>

(***************************************************************************)
(* Web tool (tools.WebTool): Execute validates the URL's host, the client  *)
(* validates the target of every redirect, and the transport's dialContext *)
(* resolves a host name itself and dials only the addresses it lets pass.  *)
(***************************************************************************)
notToolVars == <<chatVars, stdioVars, httpVars, mgrVars, cronVars, discordVars,
                 moreVars>>

BlockedErr == "web: private/special-use targets are blocked"

\* strings.ToLower on one label
ToLower(label) == IF label = "LOCALHOST" THEN "localhost" ELSE label

\* host == "localhost" || strings.HasSuffix(host, ".localhost"), on the
\* lower-cased host
IsLocalhost(labels) ==
  /\ Len(labels) >= 1
  /\ ToLower(labels[Len(labels)]) = "localhost"

\* WebTool.validateTarget(u): "" for nil
ValidateTarget(allowPrivate, host) ==
  IF allowPrivate THEN ""
  ELSE IF host[1] = "name" /\ IsLocalhost(host[2]) THEN BlockedErr
  ELSE IF host[1] = "ip" /\ IsPrivateOrLocalIP(host[3]) THEN BlockedErr
  ELSE ""

\* WebTool.Execute up to client.Do, on a tool made by
\* newWebToolWithOptions(allowPrivate, ...)
WebExecute(allowPrivate, host) ==
  /\ webPc \in {"idle", "done"}
  /\ webAllow' = allowPrivate
  /\ webTarget' = host
  /\ webAnswer' = "none"
  /\ webDialed' = {}
  /\ LET err == ValidateTarget(allowPrivate, host) IN
       IF err # ""
         THEN webPc' = "done" /\ webErr' = err /\ webVia' = 0
         ELSE webPc' = "dialing" /\ webErr' = "" /\ webVia' = 1
  /\ UNCHANGED <<cmdVars, fsVars, notToolVars>>

\* an answer of the resolver by kind: "none" for an error or no address,
\* "blocked" when every address is in a blocked range, "public" when none
\* is, "mixed" otherwise
AnswerKind(ips) ==
  IF ips = <<>> THEN "none"
  ELSE IF \A i \in 1..Len(ips) : IsPrivateOrLocalIP(ips[i]) THEN "blocked"
  ELSE IF \A i \in 1..Len(ips) : ~IsPrivateOrLocalIP(ips[i]) THEN "public"
  ELSE "mixed"

\* a dialContext that dials every address of the answer
DialableAll(ips) == [i \in 1..Len(ips) |-> Unmap(ips[i])]

\* dialContext's loop over the answer: the addresses it dials, in order
Dialable(ips) ==
  SelectSeq([i \in 1..Len(ips) |-> Unmap(ips[i])], LAMBDA ip : ~IsPrivateOrLocalIP(ip))

\* the addresses dialed when the k-th dial is the first to succeed (k = 0:
\* none succeeds)
DialedOf(cand, k) == {cand[i] : i \in 1..(IF k = 0 THEN Len(cand) ELSE k)}

\* WebTool.dialContext for the current target; ips is the resolver's answer
\* for a host name, k the dial that succeeds
WebDial(ips, k) ==
  /\ webPc = "dialing"
  /\ webTarget[1] = "ip" => ips = <<>> /\ k \in {0, 1}
  /\ LET literal == webTarget[1] = "ip"
         refused == /\ ~webAllow
                    /\ \/ webTarget[1] = "name" /\ IsLocalhost(webTarget[2])
                       \/ literal /\ IsPrivateOrLocalIP(webTarget[3])
         cand == IF literal THEN <<webTarget[3]>>
                 ELSE IF webAllow THEN ips ELSE Dialable(ips)
     IN /\ k <= Len(cand)
        /\ refused => k = 0
        /\ webAnswer' = AnswerKind(ips)
        /\ IF refused
             THEN webDialed' = {} /\ webPc' = "done" /\ webErr' = BlockedErr
             ELSE /\ webDialed' = DialedOf(cand, k)
                  /\ IF k > 0
                       THEN webPc' = "connected" /\ webErr' = ""
                       ELSE /\ webPc' = "done"
                            /\ webErr' = IF literal \/ webAllow THEN "web: dial failed"
                                         ELSE IF ips = <<>> THEN "web: DNS lookup failed"
                                         ELSE IF cand = <<>>
                                           THEN "web: host resolves only to private/special-use addresses"
                                         ELSE "web: dial failed"
  /\ UNCHANGED <<webAllow, webTarget, webVia, cmdVars, fsVars, notToolVars>>

\* the response of the server connected to: a 2xx body, another status, or a
\* redirect to loc, which CheckRedirect validates
WebRespond(kind, loc) ==
  /\ webPc = "connected"
  /\ kind # "redirect" => loc = NoHost
  /\ kind = "redirect" => loc # NoHost
  /\ IF kind = "ok"
       THEN /\ webPc' = "done" /\ webErr' = ""
            /\ UNCHANGED <<webTarget, webVia, webAnswer, webDialed>>
     ELSE IF kind = "status"
       THEN /\ webPc' = "done" /\ webErr' = "web: request failed with status"
            /\ UNCHANGED <<webTarget, webVia, webAnswer, webDialed>>
     ELSE IF webVia >= maxWebRedirects
       THEN /\ webPc' = "done" /\ webErr' = "web: too many redirects"
            /\ UNCHANGED <<webTarget, webVia, webAnswer, webDialed>>
     ELSE LET err == ValidateTarget(webAllow, loc) IN
            /\ webTarget' = loc
            /\ IF err # ""
                 THEN /\ webPc' = "done" /\ webErr' = err
                      /\ UNCHANGED <<webVia, webAnswer, webDialed>>
                 ELSE /\ webPc' = "dialing" /\ webErr' = "" /\ webVia' = webVia + 1
                      /\ webAnswer' = "none" /\ webDialed' = {}
  /\ UNCHANGED <<webAllow, cmdVars, fsVars, notToolVars>>

(***************************************************************************)
(* Exec tool (tools.ExecTool): argv-only execution of a child process      *)
(* under the default policy, with the unsafe override and the timeout.     *)
(***************************************************************************)
\* the programs of the safe allowlist and the banned programs
SafePrograms == {<<"echo">>, <<"cat">>, <<"ls">>, <<"pwd">>, <<"grep">>, <<"find">>,
                 <<"git">>, <<"sleep">>}
BannedPrograms == {<<"rm">>, <<"dd">>, <<"shutdown">>, <<"format">>}

HasSeparator(word) == \E i \in 1..Len(word) : word[i] = "/"
BeginsWithSlash(word) == Len(word) >= 1 /\ word[1] = "/"

\* the known bypasses of an allowlisted program: git -c alias.<name>=!...,
\* find ... -exec ...
IsBypass(argv) ==
  \/ /\ argv[1] = <<"git">>
     /\ \E i \in 2..(Len(argv) - 1) :
          argv[i] = <<"-c">> /\ argv[i + 1][1] = "alias."
  \/ /\ argv[1] = <<"find">>
     /\ \E i \in 2..Len(argv) : argv[i] = <<"-exec">>

\* a policy that does not look at the arguments
PolicyProgramOnly(cmd, unsafe) ==
  IF cmd[1] # "list" THEN "exec: cmd must be an array of strings"
  ELSE IF cmd[2] = <<>> THEN "exec: empty command"
  ELSE IF cmd[2][1] \in BannedPrograms THEN "exec: program is banned"
  ELSE IF unsafe THEN ""
  ELSE IF HasSeparator(cmd[2][1]) THEN "exec: program path is not allowed"
  ELSE IF cmd[2][1] \notin SafePrograms THEN "exec: program is not in the safe allowlist"
  ELSE ""

\* the checks of Execute before it starts the child: "" when cmd passes
Policy(cmd, unsafe) ==
  IF cmd[1] # "list" THEN "exec: cmd must be an array of strings"
  ELSE IF cmd[2] = <<>> THEN "exec: empty command"
  ELSE IF cmd[2][1] \in BannedPrograms THEN "exec: program is banned"
  ELSE IF unsafe THEN ""
  ELSE IF HasSeparator(cmd[2][1]) THEN "exec: program path is not allowed"
  ELSE IF cmd[2][1] \notin SafePrograms THEN "exec: program is not in the safe allowlist"
  ELSE IF IsBypass(cmd[2]) THEN "exec: arguments are not in the safe allowlist"
  ELSE IF \E i \in 2..Len(cmd[2]) : BeginsWithSlash(cmd[2][i])
    THEN "exec: absolute path arguments are not allowed"
  ELSE ""

\* ExecTool.Execute up to the start of the child
ExecToolExecute(cmd, unsafe) ==
  /\ cmdPc = "idle"
  /\ cmdLast' = cmd
  /\ cmdUnsafe' = unsafe
  /\ LET err == Policy(cmd, unsafe) IN
       IF err # ""
         THEN cmdPc' = "done" /\ cmdErr' = err /\ cmdStarted' = 0
         ELSE cmdPc' = "running" /\ cmdErr' = "" /\ cmdStarted' = 1
  /\ UNCHANGED <<webVars, fsVars, notToolVars>>

\* the child exits: its trimmed stdout is returned, or an error with the
\* stderr excerpt on a nonzero exit
ChildExits(code) ==
  /\ cmdPc = "running"
  /\ cmdPc' = "done"
  /\ cmdErr' = IF code = 0 THEN "" ELSE "exec: command failed"
  /\ UNCHANGED <<cmdLast, cmdUnsafe, cmdStarted, webVars, fsVars, notToolVars>>

\* the wall-clock timeout ends the child
ChildTimeout ==
  /\ cmdPc = "running"
  /\ cmdPc' = "done"
  /\ cmdErr' = "exec: timeout"
  /\ UNCHANGED <<cmdLast, cmdUnsafe, cmdStarted, webVars, fsVars, notToolVars>>

\* Execute has returned and the tool takes the next call
ExecToolReturn ==
  /\ cmdPc = "done"
  /\ cmdPc' = "idle"
  /\ cmdLast' = <<"missing", <<>>>> /\ cmdUnsafe' = FALSE
  /\ cmdErr' = "" /\ cmdStarted' = 0
  /\ UNCHANGED <<webVars, fsVars, notToolVars>>

(***************************************************************************)
(* Filesystem tool (tools.FilesystemTool): read, write and list through    *)
(* the os.Root opened at the workspace directory.                          *)
(***************************************************************************)
\* FilesystemTool.root: every path is resolved beneath the os.Root
BeneathRootOff == FALSE
BeneathRoot == TRUE

\* what leaving the root gives: os.Root's "path escapes from parent" error,
\* or, without the root, the outside
Leaves == IF BeneathRoot THEN "escape" ELSE "out"

KindOf(tree, n) ==
  IF n = <<>> THEN "dir" ELSE IF n \in Nodes THEN tree[n] ELSE "none"

Parent(n) == SubSeq(n, 1, Len(n) - 1)

\* the components a symlink with this target stands for
LinkParts(target) == IF target = "up" THEN <<"..">> ELSE <<target>>

\* os.Root's resolution of the components rest from the directory cur:
\* <<"at", node>> when it ends at a node (present or not) of a present
\* directory, otherwise the error; a symlink is replaced by its target, an
\* absolute target and a ".." at the root leave the root
RECURSIVE Walk(_, _, _, _)
Walk(tree, target, cur, rest) ==
  IF rest = <<>> THEN <<"at", cur>>
  ELSE LET c == Head(rest)
           more == Tail(rest)
           n == Append(cur, c)
           k == KindOf(tree, n)
       IN IF c = "/" THEN <<Leaves, cur>>
          ELSE IF c = "." THEN Walk(tree, target, cur, more)
          ELSE IF c = ".."
            THEN IF cur = <<>> THEN <<Leaves, cur>>
                 ELSE Walk(tree, target, Parent(cur), more)
          ELSE IF k = "link"
            THEN IF target = "etc" THEN <<Leaves, cur>>
                 ELSE Walk(tree, target, cur, LinkParts(target) \o more)
          ELSE IF k = "dir" THEN Walk(tree, target, n, more)
          ELSE IF more = <<>> THEN <<"at", n>>
          ELSE IF k = "none" THEN <<"noent", n>>
          ELSE <<"notdir", n>>

\* os.Root.MkdirAll on the components rest from cur: <<result, tree>>; a
\* missing directory is created on the way
RECURSIVE MkWalk(_, _, _, _)
MkWalk(tree, target, cur, rest) ==
  IF rest = <<>> THEN <<"ok", tree>>
  ELSE LET c == Head(rest)
           more == Tail(rest)
           n == Append(cur, c)
           k == KindOf(tree, n)
       IN IF c = "/" THEN <<Leaves, tree>>
          ELSE IF c = "." THEN MkWalk(tree, target, cur, more)
          ELSE IF c = ".."
            THEN IF cur = <<>> THEN <<Leaves, tree>>
                 ELSE MkWalk(tree, target, Parent(cur), more)
          ELSE IF k = "link"
            THEN IF target = "etc" THEN <<Leaves, tree>>
                 ELSE MkWalk(tree, target, cur, LinkParts(target) \o more)
          ELSE IF k = "dir" THEN MkWalk(tree, target, n, more)
          ELSE IF k = "none" /\ n \in Nodes
            THEN MkWalk([tree EXCEPT ![n] = "dir"], target, n, more)
          ELSE IF k = "none" THEN <<"noent", tree>>
          ELSE <<"notdir", tree>>

\* filepath.Clean on components: "." dropped, "x/.." dropped, ".." kept in
\* front, "/.." is "/"
RECURSIVE CleanOnto(_, _)
CleanOnto(stack, rest) ==
  IF rest = <<>> THEN stack
  ELSE LET c == Head(rest) IN
    IF c = "." THEN CleanOnto(stack, Tail(rest))
    ELSE IF c # ".." THEN CleanOnto(Append(stack, c), Tail(rest))
    ELSE IF stack = <<>> \/ stack[Len(stack)] = ".."
      THEN CleanOnto(Append(stack, c), Tail(rest))
    ELSE IF stack[Len(stack)] = "/" THEN CleanOnto(stack, Tail(rest))
    ELSE CleanOnto(Parent(stack), Tail(rest))

\* filepath.Dir(pathStr): the cleaned path without its last component; <<>>
\* is "."
Dir(path) == IF path = <<>> THEN <<>> ELSE CleanOnto(<<>>, Parent(path))

\* pathStr == "" is "."
PathStr(path) == IF path = <<>> THEN <<".">> ELSE path

\* Execute, case "read": root.ReadFile(pathStr)
FsRead(path) ==
  /\ LET w == Walk(fsTree, linkTarget, <<>>, PathStr(path))
         k == KindOf(fsTree, w[2])
         result == IF w[1] = "out" THEN "ok"
                   ELSE IF w[1] # "at" THEN w[1]
                   ELSE IF k = "none" THEN "noent"
                   ELSE IF k = "dir" THEN "isdir"
                   ELSE "ok"
     IN /\ fsLast' = <<"read", path, result, linkTarget, FALSE>>
        /\ fsOutside' = IF w[1] = "out" THEN fsOutside \cup {"read"} ELSE fsOutside
  /\ UNCHANGED <<fsTree, linkTarget, webVars, cmdVars, notToolVars>>

\* Execute, case "list": root.Open(pathStr) and ReadDir
FsList(path) ==
  /\ LET w == Walk(fsTree, linkTarget, <<>>, PathStr(path))
         k == KindOf(fsTree, w[2])
         result == IF w[1] = "out" THEN "ok"
                   ELSE IF w[1] # "at" THEN w[1]
                   ELSE IF k = "none" THEN "noent"
                   ELSE IF k = "dir" THEN "ok"
                   ELSE "notdir"
     IN /\ fsLast' = <<"list", path, result, linkTarget, FALSE>>
        /\ fsOutside' = IF w[1] = "out" THEN fsOutside \cup {"listed"} ELSE fsOutside
  /\ UNCHANGED <<fsTree, linkTarget, webVars, cmdVars, notToolVars>>

\* root.WriteFile(pathStr, content) on the tree MkdirAll left:
\* <<result, tree>>
WriteFileIn(tree, target, path) ==
  LET w == Walk(tree, target, <<>>, path)
      k == KindOf(tree, w[2])
  IN IF w[1] = "out" THEN <<"out", tree>>
     ELSE IF w[1] # "at" THEN <<w[1], tree>>
     ELSE IF k = "dir" THEN <<"isdir", tree>>
     ELSE IF w[2] \notin Nodes THEN <<"noent", tree>>
     ELSE <<"ok", [tree EXCEPT ![w[2]] = "written"]>>

\* Execute, case "write": root.MkdirAll(filepath.Dir(pathStr)) unless the
\* directory is ".", then root.WriteFile(pathStr, content)
FsWrite(path) ==
  /\ LET dir == Dir(PathStr(path))
         m == IF dir = <<>> THEN <<"ok", fsTree>>
              ELSE MkWalk(fsTree, linkTarget, <<>>, dir)
         w == IF m[1] \in {"ok", "out"}
                THEN WriteFileIn(m[2], linkTarget, PathStr(path))
                ELSE m
         result == IF w[1] = "out" THEN "ok" ELSE w[1]
     IN /\ fsTree' = w[2]
        /\ fsLast' = <<"write", path, result, linkTarget, w[2] # fsTree>>
        /\ fsOutside' = fsOutside
                          \cup (IF m[1] = "out" THEN {"created"} ELSE {})
                          \cup (IF m[1] \in {"ok", "out"} /\ w[1] = "out"
                                  THEN {"modified"} ELSE {})
  /\ UNCHANGED <<linkTarget, webVars, cmdVars, notToolVars>>

\* between two operations another process with access to the workspace
\* points the symlink elsewhere
FsSwapLink(target) ==
  /\ target # linkTarget
  /\ linkTarget' = target
  /\ UNCHANGED <<fsTree, fsLast, fsOutside, webVars, cmdVars, notToolVars>>

(***************************************************************************)
(* splitMessage (internal/channels): the reply of the agent is cut into    *)
(* chunks of at most maxLen characters before it is sent to Discord.  A    *)
(* content is a sequence of characters; "a" stands for any character that  *)
(* is neither a newline nor a space.                                       *)
(***************************************************************************)
\* the subsystems beside those of this part
notMoreVars == <<chatVars, stdioVars, httpVars, mgrVars, cronVars, discordVars,
                 toolVars>>
notSplitVars == <<cfgVars, ownVars, keyVars, legVars, notMoreVars>>
notCfgVars == <<splitVars, ownVars, keyVars, legVars, notMoreVars>>
notOwnVars == <<splitVars, cfgVars, keyVars, legVars, notMoreVars>>
notKeyVars == <<splitVars, cfgVars, ownVars, legVars, notMoreVars>>
notLegVars == <<splitVars, cfgVars, ownVars, keyVars, notMoreVars>>

Runes == {"a", " ", "\n"}
SplitContents == UNION {[1..n -> Runes] : n \in 1..MaxContent}
SplitLens == 1..MaxSplit

\* one backward scan `for i := maxLen - 1; i > stop; i-- { if runes[i] == c
\* { idx = i + 1; break } }` on idx == maxLen: the new idx.  Positions are
\* counted from 1 here, so the scan visits the positions maxLen down to low.
ScanBack(runes, c, low, maxLen) ==
  LET hits == {p \in low..maxLen : runes[p] = c}
  IN IF hits = {} THEN maxLen ELSE CHOOSE p \in hits : \A q \in hits : q <= p

\* the index where the loop body cuts: the newline scan, and the space scan
\* when idx still equals maxLen after it
SplitIdx(runes, low, maxLen) ==
  LET idx == ScanBack(runes, "\n", low, maxLen)
  IN IF idx = maxLen THEN ScanBack(runes, " ", low, maxLen) ELSE idx

\* the loop of splitMessage on the runes that are left
RECURSIVE SplitLoop(_, _, _)
SplitLoop(runes, low, maxLen) ==
  IF Len(runes) <= maxLen
  THEN IF Len(runes) > 0 THEN <<runes>> ELSE <<>>
  ELSE LET idx == SplitIdx(runes, low, maxLen)
       IN <<SubSeq(runes, 1, idx)>>
            \o SplitLoop(SubSeq(runes, idx + 1, Len(runes)), low, maxLen)

\* splitMessage of the discordgo client: its scans stop before index 0
splitMessage(content, maxLen) ==
  IF Len(content) <= maxLen THEN <<content>> ELSE SplitLoop(content, 2, maxLen)

\* splitMessage of the gateway client: its scans include index 0
GatewaySplitMessage(content, maxLen) ==
  IF Len(content) <= maxLen THEN <<content>> ELSE SplitLoop(content, 1, maxLen)

\* runOutbound of the discordgo client splits a reply
SplitCall(content, maxLen) ==
  /\ splitPc = "idle"
  /\ splitPc' = "done"
  /\ splitArgs' = <<"discordgo", content, maxLen>>
  /\ splitChunks' = splitMessage(content, maxLen)
  /\ UNCHANGED notSplitVars

\* the outbound loop of the gateway client splits a reply
GatewaySplitCall(content, maxLen) ==
  /\ splitPc = "idle"
  /\ splitPc' = "done"
  /\ splitArgs' = <<"gateway", content, maxLen>>
  /\ splitChunks' = GatewaySplitMessage(content, maxLen)
  /\ UNCHANGED notSplitVars

\* the chunks are sent; the next reply starts afresh
SplitSent ==
  /\ splitPc = "done"
  /\ splitPc' = "idle"
  /\ splitArgs' = <<>>
  /\ splitChunks' = <<>>
  /\ UNCHANGED notSplitVars

(***************************************************************************)
(* Config API (internal/ui, internal/config): POST /api/config decodes the *)
(* body into a config.Config and saves it, GET /api/config loads the file  *)
(* and encodes the Config.  The repository holds two declarations of       *)
(* Config; the build is the one or the other.                              *)
(***************************************************************************)
Builds == {"url", "command"}

\* the fields of the contract that Config declares: MCPServerConfig has URL
\* in the one declaration (schema.go:3-56) and not in the other (60-112);
\* ChannelsConfig has Telegram only in both
StructFields(build) ==
  {"agents.defaults.model", "providers.openai.apiKey", "channels.telegram.token"}
    \cup (IF build = "url" THEN {"mcp.servers.s.url"} ELSE {})

\* the fields tagged omitempty
OmitEmpty(build) == IF build = "url" THEN {"mcp.servers.s.url"} ELSE {}
\* the object a field lies in when that object is optional: the pointer
\* Providers.OpenAI, an entry of the map MCP.Servers
ParentOf(f) ==
  IF f = "providers.openai.apiKey" THEN "providers.openai"
  ELSE IF f = "mcp.servers.s.url" THEN "mcp.servers.s"
  ELSE ""
HasParent(doc, f) ==
  ParentOf(f) = "" \/ \E g \in ConfigFields : ParentOf(g) = ParentOf(f) /\ doc[g] # "absent"

\* json.Decode into a Config: an unknown field is skipped, a field the
\* document lacks keeps its zero value; "nil" for a field whose parent was
\* not created
Decode(build, doc) ==
  [f \in StructFields(build) |->
     IF doc[f] # "absent" THEN doc[f]
     ELSE IF HasParent(doc, f) THEN "" ELSE "nil"]

\* json.Encode of a Config: every declared field, but an omitempty field
\* that is empty and the fields of a nil parent are left out
Encode(build, cfg) ==
  [f \in ConfigFields |->
     IF f \notin StructFields(build) THEN "absent"
     ELSE IF cfg[f] = "nil" THEN "absent"
     ELSE IF f \in OmitEmpty(build) /\ cfg[f] = "" THEN "absent"
     ELSE cfg[f]]

\* config.SaveConfig writes the Config as JSON, config.LoadConfig reads it
SaveConfig(build, cfg) == Encode(build, cfg)
LoadConfig(build, file) == Decode(build, file)

\* the build of the server, fixed by its first request
BuildIs(build) == cfgPost[1] \in {"", build}

\* POST /api/config with a well-formed body: 200 once saved, 500 when
\* SaveConfig fails
ConfigPost(build, doc, saved) ==
  /\ BuildIs(build)
  /\ cfgPost' = IF saved THEN <<build, doc, 200>> ELSE <<build, NoDocument, 500>>
  /\ cfgFile' = IF saved THEN SaveConfig(build, Decode(build, doc)) ELSE cfgFile
  /\ cfgGot' = <<>>
  /\ UNCHANGED notCfgVars

\* POST /api/config with a body that is not JSON: 400, nothing saved
ConfigPostMalformed(build) ==
  /\ BuildIs(build)
  /\ cfgPost' = <<build, NoDocument, 400>>
  /\ cfgGot' = <<>>
  /\ UNCHANGED <<cfgFile, notCfgVars>>

\* GET /api/config: the file, loaded and encoded
ConfigGet(build) ==
  /\ BuildIs(build)
  /\ cfgGot = <<>>
  /\ cfgGot' = <<Encode(build, LoadConfig(build, cfgFile))>>
  /\ UNCHANGED <<cfgFile, cfgPost, notCfgVars>>

(***************************************************************************)
(* The clients of the MCP manager: ConnectServer creates a client, closes  *)
(* it when the handshake fails and stores it otherwise; Manager.Close      *)
(* closes the clients in Manager.clients.                                  *)
(***************************************************************************)
\* how a ConnectServer ends: NewClient fails (no process was started),
\* Initialize fails, ListTools fails, or the client is stored
ConnectOutcomes == {"nostart", "initfail", "listfail", "ok"}

\* ConnectServer(name, cfg) from its first statement to its return; tools
\* are the tools the server lists
ManagerConnect(name, outcome, tools) ==
  /\ nextClient < MaxClients
  /\ mgrLast' = "connect"
  /\ IF outcome = "nostart"
       THEN UNCHANGED <<clientState, clientConn, nextClient, mClients, toolClient>>
       ELSE LET c == nextClient + 1 IN
         /\ nextClient' = c
         /\ clientConn' = [clientConn EXCEPT ![c] = <<name, outcome>>]
         /\ IF outcome = "ok"
              THEN /\ clientState' = [clientState EXCEPT ![c] = "open"]
                   /\ mClients' = [mClients EXCEPT ![name] = c]
                   /\ toolClient' = [k \in ToolKeys |->
                        IF \E tool \in tools : k = ToolKey(name, tool)
                          THEN c ELSE toolClient[k]]
              ELSE /\ clientState' = [clientState EXCEPT ![c] = "closed"]
                   /\ UNCHANGED <<mClients, toolClient>>
  /\ UNCHANGED notOwnVars

\* the clients Manager.Close ranges over
ClientsOfMap == {mClients[name] : name \in ServerNames} \ {0}

\* Manager.Close: client.Close() for every entry of m.clients; the maps are
\* left as they are
ManagerClose ==
  /\ mgrLast' = "close"
  /\ clientState' = [c \in ClientIds |->
       IF c \in ClientsOfMap THEN "closed" ELSE clientState[c]]
  /\ UNCHANGED <<clientConn, nextClient, mClients, toolClient, notOwnVars>>

(***************************************************************************)
(* Tool keys: ConnectServer and RegisterMCPTools on server and tool names  *)
(* that contain the separator of the key.                                  *)
(***************************************************************************)
\* ConnectServer(name, cfg) of a server not yet connected, under the lock:
\* m.tools[toolKey] = &MCPTool{...} for every listed tool
KeyConnect(name, tools) ==
  /\ <<"mcp_stats", "stats">> \notin kReg
  /\ \A p \in kListed : p[1] # name
  /\ tools # {}
  /\ LET keys == {ToolKey(name, tool) : tool \in tools} IN
       kTools' = {t \in kTools : t[1] \notin keys} \cup
                 {<<ToolKey(name, tool), name, tool>> : tool \in tools}
  /\ kListed' = kListed \cup {<<name, tool>> : tool \in tools}
  /\ UNCHANGED <<kReg, notKeyVars>>

\* RegisterMCPTools: a wrapper for every definition of GetAllTools, then the
\* stats tool; Registry.Register overwrites
KeyRegister ==
  /\ <<"mcp_stats", "stats">> \notin kReg
  /\ kReg' = {<<t[1], "mcp">> : t \in {u \in kTools : u[1] # "mcp_stats"}}
               \cup {<<"mcp_stats", "stats">>}
  /\ UNCHANGED <<kTools, kListed, notKeyVars>>

(***************************************************************************)
(* The legacy stdio Client (internal/mcp/client.go): Client.call starts a  *)
(* reader goroutine for its request id, then takes Client.mu to write the  *)
(* request; readResponse takes the same mutex and holds it while it reads  *)
(* stdout until a response with its id arrives.                            *)
(***************************************************************************)
\* Client.call up to "go func(reqID, done)": the client is open, the request
\* is marshalled, callDone is made and the reader goroutine is started
LegacyCall(k) ==
  /\ lcPc[k] = "idle"
  /\ lcPc' = [lcPc EXCEPT ![k] = "lock"]
  /\ lcReader' = [lcReader EXCEPT ![k] = "lock"]
  /\ UNCHANGED <<lcMu, lcPending, lcOut, lcDone, lcCtx, lcLost, lcEof, notLegVars>>

\* Client.call: c.mu.Lock(), Write, Flush, c.mu.Unlock(); a write to a server
\* that has exited fails and call returns the error
LegacyWrite(k) ==
  /\ lcPc[k] = "lock"
  /\ lcMu = 0
  /\ IF lcEof
       THEN /\ lcPc' = [lcPc EXCEPT ![k] = "returned"]
            /\ UNCHANGED lcPending
       ELSE /\ lcPc' = [lcPc EXCEPT ![k] = "wait"]
            /\ lcPending' = lcPending \cup {k}
  /\ UNCHANGED <<lcReader, lcMu, lcOut, lcDone, lcCtx, lcLost, lcEof, notLegVars>>

\* readResponse: c.mu.Lock()
LegacyReaderLock(k) ==
  /\ lcReader[k] = "lock"
  /\ lcMu = 0
  /\ lcMu' = k
  /\ lcReader' = [lcReader EXCEPT ![k] = "reading"]
  /\ UNCHANGED <<lcPc, lcPending, lcOut, lcDone, lcCtx, lcLost, lcEof, notLegVars>>

\* readResponse, one turn of its loop on a line of stdout: a response with
\* the expected id is returned, the mutex released and the result put on
\* callDone; any other response is logged and dropped
LegacyRead(k) ==
  /\ lcReader[k] = "reading"
  /\ lcOut # <<>>
  /\ lcOut' = Tail(lcOut)
  /\ IF Head(lcOut) = k
       THEN /\ lcReader' = [lcReader EXCEPT ![k] = "done"]
            /\ lcMu' = 0
            /\ lcDone' = [lcDone EXCEPT ![k] = "resp"]
            /\ UNCHANGED lcLost
       ELSE /\ lcLost' = lcLost \cup {Head(lcOut)}
            /\ UNCHANGED <<lcReader, lcMu, lcDone>>
  /\ UNCHANGED <<lcPc, lcPending, lcCtx, lcEof, notLegVars>>

\* readResponse, c.stdout.ReadString fails: the server has exited and its
\* output is read to the end
LegacyReadEof(k) ==
  /\ lcReader[k] = "reading"
  /\ lcOut = <<>> /\ lcEof
  /\ lcReader' = [lcReader EXCEPT ![k] = "done"]
  /\ lcMu' = 0
  /\ lcDone' = [lcDone EXCEPT ![k] = "err"]
  /\ UNCHANGED <<lcPc, lcPending, lcOut, lcCtx, lcLost, lcEof, notLegVars>>

\* Client.call, its final select: case result := <-callDone, case <-ctx.Done()
LegacyReturn(k) ==
  /\ lcPc[k] = "wait"
  /\ lcDone[k] # "none" \/ lcCtx[k]
  /\ lcPc' = [lcPc EXCEPT ![k] = "returned"]
  /\ UNCHANGED <<lcReader, lcMu, lcPending, lcOut, lcDone, lcCtx, lcLost, lcEof, notLegVars>>

\* the context of a call in progress is cancelled or reaches its deadline
LegacyCancel(k) ==
  /\ lcPc[k] \in {"lock", "wait"}
  /\ ~lcCtx[k]
  /\ lcCtx' = [lcCtx EXCEPT ![k] = TRUE]
  /\ UNCHANGED <<lcPc, lcReader, lcMu, lcPending, lcOut, lcDone, lcLost, lcEof, notLegVars>>

\* the server answers a request it has read
LegacyRespond(id) ==
  /\ id \in lcPending
  /\ ~lcEof
  /\ lcPending' = lcPending \ {id}
  /\ lcOut' = Append(lcOut, id)
  /\ UNCHANGED <<lcPc, lcReader, lcMu, lcDone, lcCtx, lcLost, lcEof, notLegVars>>

\* the server process exits
LegacyExit ==
  /\ ~lcEof
  /\ lcEof' = TRUE
  /\ UNCHANGED <<lcPc, lcReader, lcMu, lcPending, lcOut, lcDone, lcCtx, lcLost, notLegVars>>

(***************************************************************************)
(* Specifications                                                          *)
(***************************************************************************)
\* the agent loop's own steps on the message it holds
AgentStep ==
  \/ AgentReceive
  \/ ProviderFinal("text")
  \/ ProviderToolCalls(<<ExecCall>>)
  \/ ExecuteTools
  \/ LimitReached
  \/ AgentEmit

\* the inbound side: concurrent POST /api/chat handlers send on In, the agent
\* loop is the single consumer, an adapter reads the replies from Out
NextInbound ==
  \/ \E p \in Handlers, chat \in Chats : Accept(p, "web", chat)
  \/ \E p \in Handlers : SendInbound(p)
  \/ AgentStep
  \/ DirectRead

SpecInbound == Init /\ [][NextInbound]_vars

\* the inbound queue under load: the handlers of one conversation against an
\* agent loop that answers without tools
NextBackpressure ==
  \/ \E p \in Handlers : Accept(p, "web", "c1")
  \/ \E p \in Handlers : SendInbound(p)
  \/ AgentReceive
  \/ ProviderFinal("text")
  \/ AgentEmit
  \/ DirectRead

\* goroutines are scheduled fairly, and the runtime serves the senders
\* blocked on a channel in arrival order
FairSpecBackpressure ==
  /\ Init /\ [][NextBackpressure]_vars
  /\ WF_vars(AgentReceive \/ ProviderFinal("text") \/ AgentEmit)
  /\ \A p \in Handlers : SF_vars(SendInbound(p))

\* the agent loop in full on the conversations of one channel: tool rounds,
\* memory, the iteration cap
NextAgent ==
  \/ \E chat \in Chats : Len(msgs) < MaxAgentMsgs /\ Accept("h1", "discord", chat)
  \/ SendInbound("h1")
  \/ AgentReceive
  \/ AgentRemember
  \/ \E kind \in {"text", "error"} : ProviderFinal(kind)
  \/ \E calls \in ToolCallSeqs(Visible) : ProviderToolCalls(calls)
  \/ ExecuteTools
  \/ LimitReached
  \/ AgentEmit

SpecAgent == Init /\ [][NextAgent]_vars

\* the outbound side: one handler feeds the agent, whose replies the router
\* dispatches to the subscriber queues
NextRoute ==
  \/ \E channel \in Channels : Accept("h1", channel, "c1")
  \/ SendInbound("h1")
  \/ AgentReceive
  \/ ProviderFinal("text")
  \/ AgentEmit
  \/ \E name \in Channels : Subscribe(name)
  \/ StartRouter
  \/ RouterRecv
  \/ RouterSend
  \/ \E q \in SubIds : Consume(q)
  \/ \E q \in SubIds : ConsumerStop(q)

SpecRoute == Init /\ [][NextRoute]_vars

\* the router goroutine and every running consumer are scheduled fairly; a
\* consumer that stopped takes no further step
FairSpecRoute ==
  /\ SpecRoute
  /\ WF_vars(RouterRecv)
  /\ WF_vars(RouterSend)
  /\ \A q \in SubIds : WF_vars(Consume(q))

\* the hub under cancellation and Hub.Close
NextClose ==
  \/ \E channel \in Channels : Accept("h1", channel, "c1")
  \/ SendInbound("h1")
  \/ AgentReceive
  \/ AgentExit
  \/ ProviderFinal("text")
  \/ AgentEmit
  \/ \E name \in Channels : Subscribe(name)
  \/ StartRouter
  \/ RouterRecv
  \/ RouterSend
  \/ RouterExit
  \/ \E q \in SubIds : Consume(q)
  \/ Cancel
  \/ CloseIn
  \/ CloseOut

SpecClose == Init /\ [][NextClose]_vars

\* the MCP stdio transport with its Calls, its reader and its child
NextStdio ==
  \/ \E c \in Calls : CallStart(c)
  \/ \E c \in Calls : CallRegister(c)
  \/ \E c \in Calls : CallSend(c)
  \/ \E c \in Calls : CallCleanup(c)
  \/ \E c \in Calls : CallResponse(c)
  \/ \E c \in Calls : CallCtxDone(c)
  \/ \E m \in 0..MaxCalls : ServerEmit(m)
  \/ ChildExit
  \/ ReaderTop
  \/ ReaderRead
  \/ ReaderDispatch
  \/ ReaderEOF
  \/ \E n \in Notifs : NotifyStart(n)
  \/ \E n \in Notifs : NotifySend(n)
  \/ \E k \in Closers : StdioClose(k)
  \/ \E k \in Closers : StdioCloseReap(k)
  \/ \E k \in Closers : StdioCloseJoin(k)

SpecStdio == Init /\ [][NextStdio]_vars

\* the transport while its child lives: Calls, the child's output, the reader
NextDemux ==
  \/ \E c \in Calls : CallStart(c)
  \/ \E c \in Calls : CallRegister(c)
  \/ \E c \in Calls : CallSend(c)
  \/ \E c \in Calls : CallResponse(c)
  \/ \E c \in Calls : CallCtxDone(c)
  \/ \E m \in 0..MaxCalls : ServerEmit(m)
  \/ ReaderTop
  \/ ReaderRead
  \/ ReaderDispatch

SpecDemux == Init /\ [][NextDemux]_vars

\* the transport whose child may exit under it: every way a Call returns
NextPending ==
  \/ \E c \in Calls : CallStart(c)
  \/ \E c \in Calls : CallRegister(c)
  \/ \E c \in Calls : CallSend(c)
  \/ \E c \in Calls : CallCleanup(c)
  \/ \E c \in Calls : CallResponse(c)
  \/ \E c \in Calls : CallCtxDone(c)
  \/ \E m \in 0..MaxCalls : ServerEmit(m)
  \/ ChildExit
  \/ ReaderTop
  \/ ReaderRead
  \/ ReaderDispatch
  \/ ReaderEOF

SpecPending == Init /\ [][NextPending]_vars

\* the transport under Close: Calls in flight, the child's output, the
\* reader, and Close called from several goroutines
NextShutdown ==
  \/ CallStart(1)
  \/ CallRegister(1)
  \/ CallSend(1)
  \/ CallCleanup(1)
  \/ CallResponse(1)
  \/ CallCtxDone(1)
  \/ \E m \in 0..1 : ServerEmit(m)
  \/ ChildExit
  \/ ReaderTop
  \/ ReaderRead
  \/ ReaderDispatch
  \/ ReaderEOF
  \/ \E k \in Closers : StdioClose(k)
  \/ \E k \in Closers : StdioCloseReap(k)
  \/ \E k \in Closers : StdioCloseJoin(k)

SpecShutdown == Init /\ [][NextShutdown]_vars

\* a goroutine inside Close keeps running, and so does the reader goroutine;
\* the child and the callers are free to stop
FairSpecShutdown ==
  /\ SpecShutdown
  /\ \A k \in Closers : WF_vars(StdioCloseReap(k)) /\ WF_vars(StdioCloseJoin(k))
  /\ WF_vars(ReaderTop)
  /\ WF_vars(ReaderRead)
  /\ WF_vars(ReaderDispatch)
  /\ WF_vars(ReaderEOF)

\* SpecShutdown where, besides the goroutines of FairSpecShutdown, the caller
\* keeps running: every step of Call but the expiry of its context, which
\* has no deadline
FairSpecCalls ==
  /\ FairSpecShutdown
  /\ WF_vars(CallRegister(1))
  /\ WF_vars(CallSend(1))
  /\ WF_vars(CallCleanup(1))
  /\ WF_vars(CallResponse(1))

\* both transports around their Close: operations started before and after
NextClosed ==
  \/ \E c \in Calls : CallStart(c)
  \/ \E c \in Calls : CallRegister(c)
  \/ \E c \in Calls : CallSend(c)
  \/ \E n \in Notifs : NotifyStart(n)
  \/ \E n \in Notifs : NotifySend(n)
  \/ StdioClose(1)
  \/ HttpCallStart(1)
  \/ HttpNotifyStart(2)
  \/ \E r \in {1, 2} : HttpPost(r)
  \/ HttpClose(1)

SpecClosed == Init /\ [][NextClosed]_vars

\* the callers of nextRequestID: Calls on a stdio and on an HTTP transport
NextIds ==
  \/ \E c \in Calls : CallStart(c)
  \/ \E c \in Calls : CallRegister(c)
  \/ \E c \in Calls : CallSend(c)
  \/ \E c \in Calls : CallCtxDone(c)
  \/ \E r \in HttpOps : HttpCallStart(r)
  \/ \E r \in HttpOps : HttpPost(r)
  \/ \E r \in HttpOps : HttpDoError(r)
  \/ \E r \in HttpOps : HttpCallRecv(r, 200, 0, <<"result", hId[r]>>)

SpecIds == Init /\ [][NextIds]_vars

\* the HTTP transport's session: Calls and notifications against a server
\* that may put Mcp-Session-Id on any response, then Close
NextHttpSession ==
  \/ \E r \in HttpOps : HttpCallStart(r)
  \/ \E r \in HttpOps : HttpNotifyStart(r)
  \/ \E r \in HttpOps : HttpPost(r)
  \/ \E r \in HttpOps : HttpDoError(r)
  \/ \E r \in HttpOps, status \in {200, 500}, sess \in SessionIds \cup {0} :
       HttpCallRecv(r, status, sess, <<"result", hId[r]>>)
  \/ \E r \in HttpOps, status \in {202, 500}, sess \in SessionIds \cup {0} :
       HttpNotifyRecv(r, status, sess)
  \/ \E k \in Closers : HttpClose(k)
  \/ \E k \in Closers : HttpCloseDelete(k)

SpecHttpSession == Init /\ [][NextHttpSession]_vars

\* event streams: Calls answered with text/event-stream, StartEventStream and
\* the stream it opens
NextSse ==
  \/ \E r \in HttpOps : HttpCallStart(r)
  \/ \E r \in HttpOps : HttpPost(r)
  \/ \E r \in HttpOps : HttpCallRecvSSE(r, 200, 0)
  \/ \E r \in HttpOps : \E line \in SseLines(hId[r]) : HttpSseRead(r, line)
  \/ \E r \in HttpOps : HttpSseEOF(r)
  \/ \E r \in HttpOps : HttpSseTimeout(r)
  \/ \E r \in HttpOps : HttpGetStart(r)
  \/ \E r \in HttpOps, status \in GetStatuses : HttpGetRecv(r, status)
  \/ \E e \in EventIds \cup {0} : StreamReadId(e)

SpecSse == Init /\ [][NextSse]_vars

\* Calls against a server that answers with any status, content type and body
NextHttpStatus ==
  \/ \E r \in HttpOps : HttpCallStart(r)
  \/ \E r \in HttpOps : HttpPost(r)
  \/ \E r \in HttpOps : HttpDoError(r)
  \/ \E r \in HttpOps, status \in PostStatuses : \E body \in JsonBodies(hId[r]) :
       HttpCallRecv(r, status, 0, body)
  \/ \E r \in HttpOps, status \in PostStatuses : HttpCallRecvSSE(r, status, 0)
  \/ \E r \in HttpOps : \E line \in SseLines(hId[r]) : HttpSseRead(r, line)
  \/ \E r \in HttpOps : HttpSseEOF(r)
  \/ \E r \in HttpOps : HttpSseTimeout(r)

SpecHttpStatus == Init /\ [][NextHttpStatus]_vars

\* startup: the configured servers are connected, then their tools are
\* registered with the agent's registry
\* the firings of a job in the worker's output, and whether a Cancel removed it
FiresOf(id) == {i \in 1..Len(cronIn) : cronIn[i][1] = id}
Cancelled(id) == \E i \in 1..Len(cancelLog) : cancelLog[i] = <<id, TRUE, TRUE>>
\* the Cancel calls for an id, in order
CancelsOf(id) == {i \in 1..Len(cancelLog) : cancelLog[i][1] = id}

\* Manager.ConnectServer for one configured server, step by step
Connect(name) ==
  \/ \E ok \in BOOLEAN : NewClient(name, ok)
  \/ InitializeCall(name)
  \/ \E outcome \in {"ok", "error", "badjson"} : InitializeReturn(name, outcome)
  \/ InitializedNotify(name)
  \/ ListToolsCall(name)
  \/ \E outcome \in {"ok", "error", "badjson"} : ListToolsReturn(name, outcome)
  \/ \E tools \in SUBSET ToolNames : ConnectServer(name, tools)

NextRegister ==
  \/ \E name \in ServerNames : Connect(name)
  \/ RegisterMCPTools

SpecRegister == Init /\ [][NextRegister]_vars

\* concurrent ExecuteTool calls on the tools of one connected server and on a
\* key that names no tool
NextUsage ==
  \/ NewClient("echo", TRUE)
  \/ InitializeCall("echo")
  \/ InitializeReturn("echo", "ok")
  \/ InitializedNotify("echo")
  \/ ListToolsCall("echo")
  \/ ListToolsReturn("echo", "ok")
  \/ \E tools \in {{"echo"}, {"echo", "memory"}} : ConnectServer("echo", tools)
  \/ \E e \in Execs, key \in {"echo_echo", "echo_memory", "write_memory"} :
       ExecLookup(e, key)
  \/ \E e \in Execs, outcome \in {"ok", "failed", "iserror"} :
       ExecCallTool(e, outcome)
  \/ \E e \in Execs : ExecCount(e)
  \/ \E e \in Execs : ExecReturn(e)

SpecUsage == Init /\ [][NextUsage]_vars

\* startup of two configured servers, then ExecuteTool calls
NextHandshake ==
  \/ \E name \in {"echo", "write"} : Connect(name)
  \/ \E e \in Execs, key \in {"echo_echo", "write_memory"} : ExecLookup(e, key)
  \/ \E e \in Execs, outcome \in {"ok", "failed"} : ExecCallTool(e, outcome)
  \/ \E e \in Execs : ExecCount(e)
  \/ \E e \in Execs : ExecReturn(e)

SpecHandshake == Init /\ [][NextHandshake]_vars

\* the scheduler with its worker and the cron API
NextCron ==
  \/ \E routing \in Routings, fireAt \in 1..MaxTime, interval \in Intervals \cup {0} :
       /\ fireAt > cronNow
       /\ Schedule(routing, PromptFor(routing), fireAt, interval > 0, interval)
  \/ Tick
  \/ \E j \in jobs : WorkerFire(j)
  \/ \E id \in JobIds : CronDeleteCancel(1, id)
  \/ CronDeleteRespond(1)

SpecCron == Init /\ [][NextCron]_vars

\* DELETE requests racing each other and the worker, on jobs that are due
\* when they are scheduled
NextCancel ==
  \/ \E interval \in {0, 1} :
       Schedule(<<"web", "c2">>, "p2", cronNow, interval > 0, interval)
  \/ \E j \in jobs : WorkerFire(j)
  \/ \E k \in Cancels, id \in JobIds : CronDeleteCancel(k, id)
  \/ \E k \in Cancels : CronDeleteRespond(k)

SpecCancel == Init /\ [][NextCancel]_vars

\* both message handlers on any event, any allowFrom
NextDiscord ==
  \/ \E allowFrom \in {{}, {"u1"}} : StartDiscord("test-token", allowFrom, "", TRUE)
  \/ \E e \in DiscordEvents : HandleMessage(e)
  \/ \E e \in DiscordEvents : HandleDispatch(e)

SpecDiscord == Init /\ [][NextDiscord]_vars

\* StartDiscord with any token, allowFrom and environment, then direct
\* messages from both users
NextStartDiscord ==
  \/ \E token \in {"", "test-token"}, allowFrom \in SUBSET Users,
        env \in EnvValues, opens \in BOOLEAN :
       StartDiscord(token, allowFrom, env, opens)
  \/ \E u \in Users :
       HandleMessage(<<u, FALSE, FALSE, FALSE, "none", <<"hi">>, FALSE>>)
  \/ \E u \in Users :
       HandleDispatch(<<u, FALSE, FALSE, FALSE, "none", <<"hi">>, FALSE>>)

SpecStartDiscord == Init /\ [][NextStartDiscord]_vars

\* the discordgo client with its typing indicators: messages in two chats,
\* replies, cancellation
NextTyping ==
  \/ StartDiscord("test-token", {}, "", TRUE)
  \/ \E e \in {<<"u1", FALSE, FALSE, FALSE, "none", <<"hi">>, FALSE>>,
               <<"u2", FALSE, TRUE, TRUE, "none", <<"<@bot>", "hi">>, FALSE>>} :
       HandleMessage(e)
  \/ \E t \in Tasks : TypingBegin(t)
  \/ \E t \in Tasks : TypingTick(t)
  \/ \E t \in Tasks : TypingStopped(t)
  \/ \E t \in Tasks : TypingTimeout(t)
  \/ \E chat \in Chats : RunOutbound(chat)
  \/ DiscordCancel
  \/ DiscordShutdown

SpecTyping == Init /\ [][NextTyping]_vars

\* every indicator goroutine is scheduled, and its five-minute timer fires
\* unless the goroutine leaves its select earlier
FairSpecTyping ==
  /\ SpecTyping
  /\ \A t \in Tasks :
       WF_vars(TypingBegin(t) \/ TypingStopped(t) \/ TypingTimeout(t))

\* the web tool on any host, with and without the override, against any
\* resolver and any server
NextWeb ==
  \/ \E allowPrivate \in BOOLEAN, host \in Hosts : WebExecute(allowPrivate, host)
  \/ \E ips \in AddrSeqs, k \in 0..MaxAddrs : WebDial(ips, k)
  \/ \E kind \in {"ok", "status"} : WebRespond(kind, NoHost)
  \/ \E loc \in Hosts : WebRespond("redirect", loc)

SpecWeb == Init /\ [][NextWeb]_vars

\* the exec tool on any cmd, with and without the override
NextExecTool ==
  \/ \E cmd \in Cmds, unsafe \in BOOLEAN : ExecToolExecute(cmd, unsafe)
  \/ \E code \in {0, 1} : ChildExits(code)
  \/ ChildTimeout
  \/ ExecToolReturn

SpecExecTool == Init /\ [][NextExecTool]_vars

\* the filesystem tool on any path while the workspace's symlink changes
NextFilesystem ==
  \/ \E path \in Paths : FsRead(path)
  \/ \E path \in Paths : FsList(path)
  \/ \E path \in Paths : FsWrite(path)
  \/ \E target \in LinkTargets : FsSwapLink(target)

SpecFilesystem == Init /\ [][NextFilesystem]_vars

\* splitMessage of both clients on any content and maxLen
NextSplit ==
  \/ \E content \in SplitContents, maxLen \in SplitLens : SplitCall(content, maxLen)
  \/ \E content \in SplitContents, maxLen \in SplitLens :
       GatewaySplitCall(content, maxLen)
  \/ SplitSent

SpecSplit == Init /\ [][NextSplit]_vars

\* the config API on any document, with either declaration of Config
NextConfig ==
  \/ \E build \in Builds, doc \in Documents, saved \in BOOLEAN :
       ConfigPost(build, doc, saved)
  \/ \E build \in Builds : ConfigPostMalformed(build)
  \/ \E build \in Builds : ConfigGet(build)

SpecConfig == Init /\ [][NextConfig]_vars

\* the manager connecting servers, also under a name it has already, and
\* closing
NextOwn ==
  \/ \E name \in ServerNames, outcome \in ConnectOutcomes, tools \in SUBSET ToolNames :
       ManagerConnect(name, outcome, tools)
  \/ ManagerClose

SpecOwn == Init /\ [][NextOwn]_vars

\* servers connected one after the other, then the registration
NextKeys ==
  \/ \E name \in KeyServers, tools \in SUBSET KeyTools : KeyConnect(name, tools)
  \/ KeyRegister

SpecKeys == Init /\ [][NextKeys]_vars

\* concurrent calls on one legacy client, against a server that answers the
\* requests it reads in any order and may exit
NextLegacy ==
  \/ \E k \in LegacyCallers : LegacyCall(k)
  \/ \E k \in LegacyCallers : LegacyWrite(k)
  \/ \E k \in LegacyCallers : LegacyReaderLock(k)
  \/ \E k \in LegacyCallers : LegacyRead(k)
  \/ \E k \in LegacyCallers : LegacyReadEof(k)
  \/ \E k \in LegacyCallers : LegacyReturn(k)
  \/ \E k \in LegacyCallers : LegacyCancel(k)
  \/ \E id \in LegacyCallers : LegacyRespond(id)
  \/ LegacyExit

SpecLegacy == Init /\ [][NextLegacy]_vars

\* every goroutine is scheduled, a goroutine waiting for the mutex gets it
\* if it is free again and again, and a live server answers what it has read
FairSpecLegacy ==
  /\ SpecLegacy
  /\ \A k \in LegacyCallers :
       /\ SF_vars(LegacyWrite(k))
       /\ SF_vars(LegacyReaderLock(k))
       /\ WF_vars(LegacyRead(k))
       /\ WF_vars(LegacyReadEof(k))
       /\ WF_vars(LegacyReturn(k))
       /\ WF_vars(LegacyRespond(k))

(***************************************************************************)
(* Properties                                                              *)
(***************************************************************************)
\* C1 (memory isolation): every token in the context assembled for the
\* message being processed that comes from a message on the same channel
\* comes from the same chat, so nothing write_memory stored for another chat
\* of that channel is visible; and every write of the write_memory tool went
\* to the store of the conversation being processed at the time.
C1_MemoryIsolation ==
  /\ \A t \in Visible :
       ChannelOf(t) = ChannelOf(agentCur) => ChatOf(t) = ChatOf(agentCur)
  /\ \A w \in writes : w[1] = w[2]

\* C1 witness: a message of chat c2 is before the provider after write_memory
\* stored content for chat c1 of the same channel.
C1_Witness ==
  /\ agentCur # 0
  /\ agentPc = "chat"
  /\ ConvOf(agentCur) = <<"discord", "c2">>
  /\ <<(<<"discord", "c1">>), (<<"discord", "c1">>)>> \in writes
  /\ memToday[<<"discord", "c1">>] \cup memLong[<<"discord", "c1">>] # {}

\* C2 (tool-call iteration cap): the provider is never invoked more than
\* maxToolIterations times for one message; the limit diagnostic is the reply
\* only after exactly maxToolIterations invocations, all answered with tool
\* calls; and a message whose every invocation was answered with tool calls
\* ends with the limit diagnostic as its reply, not earlier and not with
\* anything else.
C2_IterationCap ==
  /\ iteration <= MaxToolIterations
  /\ toolRounds <= iteration
  /\ finalKind = "limit" =>
       agentPc = "emit" /\ iteration = MaxToolIterations /\ toolRounds = iteration
  /\ (agentPc = "emit" /\ iteration > 0 /\ toolRounds = iteration) =>
       finalKind = "limit" /\ iteration = MaxToolIterations
  /\ (agentPc = "idle" /\ lastReply.id # 0 /\ iteration > 0 /\ toolRounds = iteration) =>
       lastReply.kind = "limit" /\ iteration = MaxToolIterations
  /\ (agentPc = "idle" /\ lastReply.kind = "limit") =>
       iteration = MaxToolIterations /\ toolRounds = iteration

\* C2 witness: a message answered with tool calls only has ended, and its
\* reply, the limit diagnostic, is on the outbound queue.
C2_Witness ==
  /\ agentPc = "idle"
  /\ toolRounds = MaxToolIterations
  /\ lastReply.kind = "limit"
  /\ lastReply.queued
  /\ lastReply.id \in Range(Out)

\* C3 (outbound dispatch): every message in a subscriber queue has the
\* channel id the queue was subscribed under; the router forwards a message
\* to one queue, the one looked up for its channel id, and appends it to no
\* other queue; a message without a subscriber is dropped in the step that
\* received it, which leaves the router ready for the next message.
C3_Dispatch ==
  /\ [](/\ \A q \in SubIds : \A i \in 1..Len(subQ[q]) :
             ChannelOf(subQ[q][i]) = subName[q]
        /\ routerPc = "send" =>
             routerCh # 0 /\ subName[routerCh] = ChannelOf(routerMsg))
  /\ [][/\ \A q \in SubIds : Len(subQ'[q]) > Len(subQ[q]) =>
              /\ q = routerCh
              /\ subQ'[q] = Append(subQ[q], routerMsg)
              /\ \A r \in SubIds \ {q} : subQ'[r] = subQ[r]
        /\ lastDrop' # lastDrop =>
              /\ Out # <<>>
              /\ lastDrop'.id = Head(Out)
              /\ subs[ChannelOf(Head(Out))] = 0
              /\ Out' = Tail(Out)
              /\ subQ' = subQ
              /\ routerPc' = "recv"
        /\ (routerPc = "recv" /\ Out' # Out /\ Len(Out') < Len(Out)
              /\ subs[ChannelOf(Head(Out))] # 0) =>
              /\ routerPc' = "send"
              /\ routerMsg' = Head(Out)
              /\ routerCh' = subs[ChannelOf(Head(Out))]]_vars

\* C3 witness: with both channel ids subscribed, one message was dropped for
\* want of a subscriber and a later one sits in the queue of its channel id.
C3_Witness ==
  /\ subs["discord"] # 0
  /\ subs["web"] # 0
  /\ lastDrop.why = "nosub"
  /\ \E q \in SubIds : \E i \in 1..Len(subQ[q]) :
       subQ[q][i] > lastDrop.id /\ ChannelOf(subQ[q][i]) # ChannelOf(lastDrop.id)

\* C4 (inbound is preserved): what was sent on In and not yet received is
\* still queued, in send order; nothing is received twice; a handler whose
\* message is not yet on the queue still holds it, and its send cannot
\* complete while the queue is full; and every message a handler holds is
\* eventually received by the agent loop.
C4_InboundPreserved ==
  /\ [](/\ sent = received \o In
        /\ \A i, j \in 1..Len(received) : received[i] = received[j] => i = j
        /\ \A p \in Handlers : prodPc[p] = "sending" =>
             /\ prodMsg[p] \notin Range(sent)
             /\ Len(In) = Buffer => ~ENABLED SendInbound(p))
  /\ \A id \in MsgIds :
       (\E p \in Handlers : prodMsg[p] = id) ~> (id \in Range(received))

\* C4 witness: the inbound queue is full behind the message the agent loop
\* is processing, and a handler is blocked in its send of a further message.
C4_Witness ==
  /\ Len(In) = Buffer
  /\ \E p \in Handlers : prodPc[p] = "sending" /\ ~ENABLED SendInbound(p)
  /\ agentCur # 0

\* C5 (stdio demultiplexing): a response in a Call's done queue, and the
\* response a Call returned, carry that Call's request id; the reader
\* dispatches a response to the Call registered under its id and to that one
\* only; reading a message without an id changes no Call, no done queue and
\* no entry of the pending table.
C5_Demux ==
  /\ [](/\ \A c \in Calls : \A i \in 1..Len(done[c]) :
             done[c][i] # 0 /\ done[c][i] = callId[c]
        /\ \A c \in Calls : callResult[c][1] = "response" =>
             callResult[c][2] = callId[c]
        /\ readerPc = "dispatch" =>
             readerResp # 0 /\ readerCall # 0 /\ callId[readerCall] = readerResp)
  /\ [][/\ (readerPc = "reading" /\ stdoutQ # <<>> /\ stdoutQ' = Tail(stdoutQ)) =>
              IF Head(stdoutQ) = 0
                THEN UNCHANGED callVars /\ readerPc' = "top"
                ELSE pending[Head(stdoutQ)] # 0 =>
                       /\ readerPc' = "dispatch"
                       /\ readerCall' = pending[Head(stdoutQ)]
                       /\ readerResp' = Head(stdoutQ)
        /\ (readerPc = "dispatch" /\ readerPc' = "top") =>
              /\ \A c \in Calls \ {readerCall} : done'[c] = done[c]
              /\ done[readerCall] = <<>> => done'[readerCall] = <<readerResp>>]_vars

\* C5 witness: two Calls were pending; the one with the higher request id
\* has returned its response, and the response of the one with the lower id,
\* read after it, is being dispatched to that Call.
C5_Witness ==
  \E c1, c2 \in Calls :
    /\ callId[c1] # 0
    /\ callId[c1] < callId[c2]
    /\ callResult[c2] = <<"response", callId[c2]>>
    /\ callPc[c1] = "wait"
    /\ done[c1] = <<>>
    /\ readerPc = "dispatch"
    /\ readerCall = c1

\* C6 (per-conversation ordering): the message being processed is the one
\* received last; the reply emitted last belongs to the message received
\* last, or, while that one is still being processed, to the one received
\* before it; and the messages of each conversation were received in the
\* order they were put on the inbound queue.
C6_SequentialProcessing ==
  /\ agentCur = 0 =>
       /\ agentPc = "idle"
       /\ lastReply.id = IF received = <<>> THEN 0 ELSE received[Len(received)]
  /\ agentCur # 0 =>
       /\ agentPc \in {"chat", "tools", "emit"}
       /\ agentCur = received[Len(received)]
       /\ lastReply.id = IF Len(received) = 1 THEN 0 ELSE received[Len(received) - 1]
  /\ \A conv \in Convs :
       LET mine(id) == ConvOf(id) = conv
           got == SelectSeq(received, mine)
           put == SelectSeq(sent, mine)
       IN Len(got) <= Len(put) /\ \A i \in 1..Len(got) : got[i] = put[i]

\* C6 witness: two messages of one conversation sit on the inbound queue
\* behind the one being processed in a tool round, which was not the first
\* message accepted.
C6_Witness ==
  /\ agentPc = "tools"
  /\ agentCur # 1
  /\ Len(In) = 2
  /\ ConvOf(In[1]) = ConvOf(In[2])
  /\ ConvOf(In[1]) = ConvOf(agentCur)

\* C7 (outbound overflow policy): the router's forward to a subscriber
\* queue can always complete, so the router is never blocked by a full
\* subscriber queue.
C7_RouterNeverBlocked == routerPc = "send" => ENABLED RouterSend

\* C8 (robustness to slow subscribers): every outbound message for channel
\* "discord" on the outbound queue, with the router running and "discord"
\* subscribed, eventually reaches a queue subscribed under "discord", also
\* when the consumer of "web" has stopped draining.
C8_OtherChannelDelivered ==
  \A id \in MsgIds :
    (/\ id \in Range(Out)
     /\ ChannelOf(id) = "discord"
     /\ subs["discord"] # 0
     /\ routerPc # "unstarted")
    ~> (\E q \in SubIds : subName[q] = "discord" /\ id \in Range(subQ[q]))

\* C9 (hub close semantics): once Hub.Close has closed both queues and the
\* router has returned, every running consumer whose subscriber queue is
\* drained can observe end-of-stream.
C9_EndOfStream ==
  (inClosed /\ outClosed /\ routerPc = "exited" /\ ~crashed) =>
    \A q \in SubIds :
      (consumerPc[q] = "running" /\ subQ[q] = <<>>) => ENABLED Consume(q)

\* C10 (pending-call table hygiene): an entry of the pending table belongs
\* to a Call between its insert and its delete and sits under that Call's
\* request id; every such Call has its entry; a request is on the wire only
\* after its Call was registered; with no Call in progress the table is
\* empty; and an entry is removed only by the step in which its own Call
\* returns.
C10_PendingHygiene ==
  /\ [](/\ \A id \in ReqIds : pending[id] # 0 =>
             Registered(pending[id]) /\ callId[pending[id]] = id
        /\ \A c \in Calls : Registered(c) => pending[callId[c]] = c
        /\ \A c \in Calls : callId[c] \in wire => callPc[c] \in {"wait", "returned"}
        /\ (\A c \in Calls : callPc[c] \in {"idle", "returned"}) =>
             \A id \in ReqIds : pending[id] = 0)
  /\ [][\A id \in ReqIds : (pending[id] # 0 /\ pending'[id] # pending[id]) =>
          /\ pending'[id] = 0
          /\ callPc[pending[id]] # "returned"
          /\ callPc'[pending[id]] = "returned"]_vars

\* C10 witness: one Call returned after its write or flush failed and its
\* entry is gone, while another Call, still waiting, has its entry.
C10_Witness ==
  \E c1, c2 \in Calls :
    /\ callPc[c1] = "wait"
    /\ pending[callId[c1]] = c1
    /\ callPc[c2] = "returned"
    /\ callResult[c2][1] \in {"write", "flush"}
    /\ pending[callId[c2]] = 0

\* C11 (Close is idempotent): however many Close calls run, in sequence or
\* concurrently, at most one of them wins the compare-and-set, the stdin pipe
\* is closed at most once and the child is reaped at most once; the shutdown
\* was started exactly when the transport is closed, a Close that has
\* returned found the transport closed, and once every Close has returned the
\* shutdown sequence has run exactly once.  (Every return of Close is
\* `return nil`.)
C11_CloseIdempotent ==
  /\ Cardinality({k \in Closers : closeWon[k]}) <= 1
  /\ stdinCloses <= 1
  /\ reaps <= 1
  /\ closed <=> (\E k \in Closers : closeWon[k])
  /\ stdinCloses = (IF closed THEN 1 ELSE 0)
  /\ \A k \in Closers : stdioClosePc[k] # "none" => closed
  /\ (\A k \in Closers : stdioClosePc[k] = "returned") =>
       stdinCloses = 1 /\ reaps = 1

\* C11 witness: every Close has returned, one of them without having won the
\* compare-and-set, and the shutdown sequence ran once.
C11_Witness ==
  /\ \A k \in Closers : stdioClosePc[k] = "returned"
  /\ \E k \in Closers : ~closeWon[k]
  /\ stdinCloses = 1
  /\ reaps = 1

\* C12 as stated (shutdown order and completion): whenever a call to Close
\* has returned, the stdin pipe is closed, the child has been reaped and the
\* reader has exited.
C12_EveryCloseComplete ==
  \A k \in Closers : stdioClosePc[k] = "returned" =>
    /\ ~stdinOpen
    /\ ~childUp
    /\ reaps >= 1
    /\ readerPc = "exited"

\* C12 amended: the Close that won the compare-and-set closes stdin, then
\* waits for the child, then for the reader, and only then returns: while it
\* waits for the child stdin is closed, while it waits for the reader the child
\* has been reaped, and when it has returned the reader has exited as well;
\* and every call to Close terminates.
C12_WinnerCloseComplete ==
  /\ [](\A k \in Closers :
          /\ stdioClosePc[k] \in {"reap", "join"} => closeWon[k]
          /\ stdioClosePc[k] = "reap" => ~stdinOpen /\ stdinCloses = 1
          /\ stdioClosePc[k] = "join" =>
               ~stdinOpen /\ ~childUp /\ reaps = 1
          /\ (closeWon[k] /\ stdioClosePc[k] = "returned") =>
               ~stdinOpen /\ ~childUp /\ reaps = 1 /\ readerPc = "exited")
  /\ \A k \in Closers :
       (stdioClosePc[k] # "none") ~> (stdioClosePc[k] = "returned")

\* C12 witness: the child has written output, and the Close that won the
\* compare-and-set has returned with the child reaped and the reader gone.
C12_Witness ==
  \E k \in Closers :
    /\ closeWon[k]
    /\ stdioClosePc[k] = "returned"
    /\ reaps = 1
    /\ readerPc = "exited"
    /\ serverSent > 0

\* C13 (a closed transport rejects all operations): a Call or a
\* SendNotification that starts on a transport whose Close has set the closed
\* flag returns the 'closed' error in that step, with no frame written to the
\* child's stdin, no HTTP request sent and the pending table unchanged; and
\* an operation that returned 'closed' has written nothing and holds no entry.
C13_ClosedRejects ==
  /\ [](/\ \A c \in Calls : callResult[c][1] = "closed" =>
             /\ callPc[c] = "returned"
             /\ callId[c] \notin wire
             /\ \A id \in ReqIds : pending[id] # c
        /\ Cardinality(wire) + notifFrames <=
             Cardinality({c \in Calls : callPc[c] = "wait"}) +
             Cardinality({n \in Notifs : notifResult[n] = "nil"})
        /\ Len(hLog) =
             Cardinality({r \in HttpOps : hPc[r] = "sent"}))
  /\ [][/\ \A c \in Calls :
             (closed /\ callPc[c] = "idle" /\ callPc'[c] # "idle") =>
               /\ callPc'[c] = "returned"
               /\ callResult'[c] = <<"closed", 0>>
               /\ wire' = wire /\ notifFrames' = notifFrames
               /\ pending' = pending
        /\ \A n \in Notifs :
             (closed /\ notifPc[n] = "idle" /\ notifPc'[n] # "idle") =>
               /\ notifPc'[n] = "returned"
               /\ notifResult'[n] = "closed"
               /\ wire' = wire /\ notifFrames' = notifFrames
               /\ pending' = pending
        /\ \A r \in HttpOps :
             (hClosed /\ hPc[r] = "idle" /\ hPc'[r] # "idle") =>
               /\ hPc'[r] = "returned"
               /\ hResult'[r] = <<"closed", 0>>
               /\ hLog' = hLog]_vars

\* C13 witness: on each transport one operation went through before Close
\* and another, started after it, was refused.
C13_Witness ==
  /\ \E c1, c2 \in Calls :
       /\ callPc[c1] = "wait"
       /\ callResult[c2] = <<"closed", 0>> /\ callId[c2] = 0
  /\ \E n \in Notifs : notifResult[n] = "closed"
  /\ hPc[1] = "sent"
  /\ hResult[2] = <<"closed", 0>>

\* C14 (subprocess death): once the child has exited on its own and the
\* reader has seen the end of its output, with Close not called, a Call that
\* starts returns the transport-closed error in that step and registers no
\* pending call.
C14_CallAfterDeathRefused ==
  [][\A c \in Calls :
       (/\ ~childUp /\ readerPc = "exited" /\ ~closed
        /\ callPc[c] = "idle" /\ callPc'[c] # "idle") =>
         /\ callPc'[c] = "returned"
         /\ callResult'[c][1] = "closed"]_vars

\* C15 (global request ids): the ids drawn so far by the Calls of the stdio
\* and of the HTTP transport are exactly 1..requestIDCounter, each drawn by
\* one Call only, and a Call that draws an id gets the counter's value plus
\* one and leaves the counter there.
C15_RequestIds ==
  /\ [](/\ \A c \in Calls : callId[c] \in 0..requestIDCounter
        /\ \A r \in HttpOps : hId[r] \in 0..requestIDCounter
        /\ \A c1, c2 \in Calls :
             (callId[c1] # 0 /\ callId[c1] = callId[c2]) => c1 = c2
        /\ \A r1, r2 \in HttpOps : (hId[r1] # 0 /\ hId[r1] = hId[r2]) => r1 = r2
        /\ \A c \in Calls, r \in HttpOps : callId[c] # 0 => callId[c] # hId[r]
        /\ \A id \in 1..requestIDCounter :
             (\E c \in Calls : callId[c] = id) \/ (\E r \in HttpOps : hId[r] = id))
  /\ [][/\ requestIDCounter' \in {requestIDCounter, requestIDCounter + 1}
        /\ \A c \in Calls : callId'[c] # callId[c] =>
             /\ callId[c] = 0
             /\ callId'[c] = requestIDCounter + 1
             /\ requestIDCounter' = requestIDCounter + 1
        /\ \A r \in HttpOps : hId'[r] # hId[r] =>
             /\ hId[r] = 0
             /\ hId'[r] = requestIDCounter + 1
             /\ requestIDCounter' = requestIDCounter + 1]_vars

\* C15 witness: a stdio Call and an HTTP Call are in flight at once, with
\* consecutive ids.
C15_Witness ==
  \E c \in Calls, r \in HttpOps :
    /\ callPc[c] = "wait"
    /\ hPc[r] = "sent"
    /\ callId[c] = 1
    /\ hId[r] = 2

\* the POSTs among the first n requests sent
PostsBefore(n) == {i \in 1..n : hLog[i][1] = "POST"}

LastIdRead == IF hIdRead = -1 THEN 0 ELSE hIdRead

\* C17 (SSE resumption): lastEventID holds the value of the last "id:" line
\* read, and a StartEventStream GET carries it as Last-Event-ID; while no
\* "id:" line has been read the GET carries no Last-Event-ID.
C17_LastEventId ==
  /\ [](/\ hLastEventID = LastIdRead
        /\ hIdRead = -1 =>
             \A i \in 1..Len(hLog) : hLog[i][1] = "GET" => hLog[i][3] = 0)
  /\ [][\A r \in HttpOps :
          (hKind'[r] = "get" /\ hPc[r] = "idle" /\ hPc'[r] = "sent") =>
            hLog' = Append(hLog, <<"GET", hSession, LastIdRead>>)]_vars

\* C17 witness: a Call answered with an event stream read two "id:" lines,
\* and a later GET carried the second one.
C17_Witness ==
  /\ \E r \in HttpOps : hKind[r] = "call" /\ hLinesRead[r] = 2 /\ hPc[r] = "sse"
  /\ hIdRead = 2
  /\ ~hStream
  /\ \E i \in 1..Len(hLog) : hLog[i] = <<"GET", 0, 2>>

\* C18 (HTTP error status): a Call whose POST was answered with an error
\* status returns an error, never a result.
C18_ErrorStatusIsError ==
  \A r \in HttpOps :
    (hPc[r] = "returned" /\ hResult[r][2] >= 400) => hResult[r][1] # "ok"

\* C19 (MCP tool namespacing): every tool T of server S has the key mcp_S_T in
\* the Manager, no such key is the name of a native tool or of the stats
\* tool, and so in the registry no MCP tool stands under a native name or
\* under mcp_stats and every native tool is still registered.
C19_Namespaced ==
  /\ \A t \in mTools :
       /\ t[1] = "mcp_" \o t[2] \o "_" \o t[3]
       /\ t[1] \notin NativeNames \cup {"mcp_stats"}
  /\ \A x \in regTools : x[2] = "mcp" => x[1] \notin NativeNames \cup {"mcp_stats"}
  /\ \A n \in NativeNames : <<n, "native">> \in regTools

\* C20 (MCP usage counter): the count of a key is the number of ExecuteTool
\* calls for it that returned a result plus those that have counted and are
\* about to return it, so with no call in flight it is the number of
\* successful calls; an ExecuteTool that returns an error (unknown key, failed
\* call, isError) changes no count.
C20_UsageCounts ==
  /\ [](/\ \A k \in ToolKeys :
             usage[k] = okReturns[k] +
               Cardinality({e \in Execs : execPc[e] = "counted" /\ execKey[e] = k})
        /\ \A e \in Execs : execPc[e] = "returned" =>
             execResult[e] \in {"ok", "notfound", "failed", "iserror"}
        /\ (\A e \in Execs : execPc[e] \in {"idle", "returned"}) =>
             \A k \in ToolKeys :
               usage[k] = Cardinality({e \in Execs : /\ execPc[e] = "returned"
                                                     /\ execKey[e] = k
                                                     /\ execResult[e] = "ok"}))
  /\ [][\A e \in Execs :
          (execPc[e] # "returned" /\ execPc'[e] = "returned"
             /\ execResult'[e] # "ok") => usage' = usage]_vars

\* C20 witness: two concurrent calls for one key, one returned its result and
\* one returned the isError error; the count is one.
C20_Witness ==
  \E e1, e2 \in Execs :
    /\ execKey[e1] = "echo_echo" /\ execKey[e2] = "echo_echo"
    /\ execPc[e1] = "returned" /\ execResult[e1] = "ok"
    /\ execPc[e2] = "returned" /\ execResult[e2] = "iserror"
    /\ usage["echo_echo"] = 1

\* C21 (MCP startup handshake order): on every server the first method sent
\* is initialize; notifications/initialized, tools/list and tools/call are in
\* a server's log only if its Initialize succeeded; tools/list has an outcome
\* only then; a server has tools in the Manager only if its ListTools
\* succeeded.
C21_HandshakeOrder ==
  \A name \in ServerNames :
    LET q == connSent[name] IN
      /\ Len(q) > 0 => q[1] = "initialize"
      /\ \A i \in 1..Len(q) : q[i] # "initialize" => initResult[name] = "ok"
      /\ listResult[name] # "none" => initResult[name] = "ok"
      /\ (\E t \in mTools : t[2] = name) => listResult[name] = "ok"

\* C21 witness: one server's initialize failed and nothing followed it, the
\* other server went through the handshake and a tools/call was sent to it.
C21_Witness ==
  /\ initResult["write"] = "error"
  /\ connSent["write"] = <<"initialize">>
  /\ connSent["echo"] = <<"initialize", "notifications/initialized",
                          "tools/list", "tools/call">>

C23_CancelOnce ==
  /\ [][\A k \in Cancels :
          (cancelPc[k] = "idle" /\ cancelPc'[k] = "cancelled") =>
            (cancelResult'[k] <=> (/\ cancelId'[k] \in {j[1] : j \in jobs}
                                   /\ cancelId'[k] \notin {j[1] : j \in jobs'}))]_vars
  /\ [](\A id \in JobIds :
          LET trues == {i \in CancelsOf(id) : cancelLog[i][3]} IN
            /\ Cardinality(trues) <= 1
            /\ \A i \in CancelsOf(id) :
                 ((\A o \in CancelsOf(id) : i <= o) /\ cancelLog[i][2]) => trues = {i})
  /\ [](\A k \in Cancels : cancelPc[k] = "responded" =>
          cancelStatus[k] = IF cancelResult[k] THEN 200 ELSE 404)

\* C23 witness: two DELETE requests for a recurring job that the worker has
\* fired; one was answered 200, the other 404.
C23_Witness ==
  \E k1, k2 \in Cancels :
    /\ cancelId[k1] = cancelId[k2] /\ cancelId[k1] # 0
    /\ scheduled[cancelId[k1]] # <<>> /\ scheduled[cancelId[k1]][6]
    /\ FiresOf(cancelId[k1]) # {}
    /\ cancelPc[k1] = "responded" /\ cancelStatus[k1] = 200
    /\ cancelPc[k2] = "responded" /\ cancelStatus[k2] = 404

\* C24 (sender allowlist): with a non-empty allowFrom, a message sent to
\* hub.In by either handler has an author in allowFrom.
C24_Allowlist ==
  (dcLast # <<>> /\ dcLast[4] /\ dcAllowed # {}) => dcLast[2][1] \in dcAllowed

\* C24 witness: with allowFrom = {u1}, a guild message of u2 that mentions
\* the bot and has text was handled and not sent to the hub.
C24_Witness ==
  /\ dcAllowed = {"u1"}
  /\ dcLast # <<>>
  /\ dcLast[2][1] = "u2" /\ dcLast[2][3] /\ dcLast[2][4]
  /\ dcLast[3] # <<>> /\ ~dcLast[4]

\* C25 (empty allowlist refused by default): StartDiscord with a token and an
\* empty allowFrom succeeds only if PICOBOT_ALLOW_PUBLIC_CHANNELS is truthy,
\* and otherwise no message is sent to the hub.
C25_EmptyAllowlistRefused ==
  /\ (dcStart = "ok" /\ dcAllowed = {}) => AllowPublicChannels(dcEnv)
  /\ (dcLast # <<>> /\ dcLast[4] /\ dcAllowed = {}) => AllowPublicChannels(dcEnv)

\* C26 (guild mention rule): a guild message sent to the hub mentions the bot
\* or replies to a message of the bot; the content sent has no mention of the
\* bot; a direct message of an allowed user with content is sent.
C26_GuildMention ==
  dcLast # <<>> =>
    LET e == dcLast[2] IN
      /\ (dcLast[4] /\ e[3]) => (e[4] \/ e[5] = "bot")
      /\ dcLast[4] => \A i \in 1..Len(dcLast[3]) :
                        dcLast[3][i] \notin {"<@bot>", "<@!bot>"}
      /\ (~e[3] /\ ~e[2] /\ Allowed(e[1]) /\ dcLast[3] # <<>>) => dcLast[4]

\* C27 (typing indicator auto-cancel): an indicator task that is alive is the
\* one registered for its chat or has been told to stop; the step that sends
\* a reply for a chat leaves every live indicator of that chat told to stop;
\* no indicator task stays alive for ever (a task leaves "started" and
\* "running" only by exiting).
C27_TypingStops ==
  /\ [](\A t \in Tasks : taskPc[t] \in {"started", "running"} =>
          (typingStop[taskChat[t]] = t \/ stopClosed[t]))
  /\ [][Len(dcReplies') > Len(dcReplies) =>
          \A t \in Tasks :
            (/\ taskChat'[t] = dcReplies'[Len(dcReplies')]
             /\ taskPc'[t] \in {"started", "running"}) => stopClosed'[t]]_vars
  /\ \A t \in Tasks : []<>(taskPc[t] \notin {"started", "running"})

\* C27 witness: two indicators of one chat, the first replaced by the second,
\* the second stopped by the reply; both have exited.
C27_Witness ==
  /\ taskChat[1] = "c1" /\ taskChat[2] = "c1"
  /\ stopClosed[1] /\ stopClosed[2]
  /\ taskPc[1] = "exited" /\ taskPc[2] = "exited"
  /\ dcReplies = <<"c1">>
  /\ ~dcCtxDone

\* the claim's blocked targets: localhost, a name under .localhost, or an
\* address in a blocked range written as the host
TargetBlocked(host) ==
  \/ host[1] = "name" /\ Len(host[2]) >= 1
       /\ host[2][Len(host[2])] \in {"localhost", "LOCALHOST"}
  \/ host[1] = "ip" /\ IsPrivateOrLocalIP(host[3])

\* C28 (web SSRF filter): with the override off, every address dialed is
\* outside the blocked ranges; a blocked target, in the URL or in a redirect,
\* ends the fetch with the private/special-use error and is never dialed; a
\* fetch whose URL was rejected has made no request and dialed nothing; a
\* connection exists only after a dial; and when every address of the
\* resolver's answer is blocked the fetch has failed with nothing dialed.
C28_NoBlockedDial ==
  ~webAllow =>
    /\ \A a \in webDialed : ~IsPrivateOrLocalIP(a)
    /\ (webPc # "idle" /\ TargetBlocked(webTarget)) =>
         (webPc = "done" /\ webErr = BlockedErr)
    /\ webVia = 0 => (webPc \in {"idle", "done"} /\ webDialed = {})
    /\ webPc = "connected" => webDialed # {}
    /\ webAnswer = "blocked" =>
         (/\ webPc = "done" /\ webDialed = {}
          /\ webErr = "web: host resolves only to private/special-use addresses")

\* C28 witness: with the override off a redirect was followed to a host name
\* whose answer mixes blocked and public addresses, and the connection
\* stands after dialing public addresses only.
C28_Witness ==
  /\ ~webAllow /\ webVia = 2 /\ webPc = "connected"
  /\ webTarget[1] = "name"
  /\ webAnswer = "mixed"
  /\ webDialed # {}

\* the requests the claim lets start a process: a list of strings whose
\* first element is a bare program name of the safe allowlist, with no
\* argument that begins with "/", and none of the known bypasses
SafeRequest(cmd) ==
  /\ cmd[1] = "list" /\ Len(cmd[2]) >= 1
  /\ \A i \in 1..Len(cmd[2][1]) : cmd[2][1][i] # "/"
  /\ cmd[2][1] \in SafePrograms
  /\ cmd[2][1] \notin {<<"sh">>, <<"bash">>} \cup BannedPrograms
  /\ \A i \in 2..Len(cmd[2]) : cmd[2][i][1] # "/"
  /\ ~(cmd[2][1] = <<"git">> /\ \E i \in 2..Len(cmd[2]) : cmd[2][i] = <<"-c">>
          /\ i < Len(cmd[2]) /\ cmd[2][i + 1][1] = "alias.")
  /\ ~(cmd[2][1] = <<"find">> /\ \E i \in 2..Len(cmd[2]) : cmd[2][i] = <<"-exec">>)

\* C29 (exec default policy): with the unsafe override unset, an Execute
\* that started a child had a safe request, and an Execute whose request was
\* not safe returned an error and started no child.
C29_ExecPolicy ==
  (cmdPc # "idle" /\ ~cmdUnsafe) =>
    /\ cmdStarted > 0 => SafeRequest(cmdLast)
    /\ ~SafeRequest(cmdLast) => (cmdPc = "done" /\ cmdErr # "" /\ cmdStarted = 0)

\* C29 witness: without the override, find . -exec (here: find hello -exec)
\* was refused and started no child.
C29_Witness ==
  /\ cmdPc = "done" /\ ~cmdUnsafe
  /\ cmdLast[1] = "list" /\ Len(cmdLast[2]) = 3
  /\ cmdLast[2][1] = <<"find">> /\ cmdLast[2][3] = <<"-exec">>
  /\ cmdErr # "" /\ cmdStarted = 0

\* the claim's paths: one whose ".." components lead out of the workspace
\* (or that is absolute), or one that passes through the symlink while it
\* points outside; d is the depth below the workspace root
RECURSIVE LeadsOutFrom(_, _, _)
LeadsOutFrom(d, rest, target) ==
  IF rest = <<>> THEN FALSE
  ELSE LET c == Head(rest) IN
    IF c = "/" THEN TRUE
    ELSE IF c = "." THEN LeadsOutFrom(d, Tail(rest), target)
    ELSE IF c = ".." THEN d = 0 \/ LeadsOutFrom(d - 1, Tail(rest), target)
    ELSE IF c = "in" /\ d = 0 THEN target # "sub" \/ LeadsOutFrom(1, Tail(rest), target)
    ELSE LeadsOutFrom(d + 1, Tail(rest), target)

LeadsOut(path, target) == LeadsOutFrom(0, path, target)

\* C30 as stated (filesystem sandbox): nothing outside the workspace is read,
\* created, modified or listed, and an operation on a path that leads out
\* returns an error and has no effect.
C30_NoEffect ==
  /\ fsOutside = {}
  /\ (fsLast # <<>> /\ LeadsOut(fsLast[2], fsLast[4])) =>
       (fsLast[3] # "ok" /\ ~fsLast[5])

\* the path goes through the workspace's symlink
ThroughLink(path) == \E i \in 1..Len(path) : path[i] = "in"

\* C30 amended (filesystem sandbox): nothing outside the workspace is read,
\* created, modified or listed; an operation on a path that leads out
\* returns an error, and has no effect when it leads out by its ".."
\* components alone; read and list change nothing; and a write that returns
\* an error changes no file: its only effect is directories made by
\* MkdirAll inside the workspace.
C30_Sandbox ==
  /\ [](/\ fsOutside = {}
        /\ (fsLast # <<>> /\ LeadsOut(fsLast[2], fsLast[4])) => fsLast[3] # "ok"
        /\ (fsLast # <<>> /\ LeadsOut(fsLast[2], fsLast[4]) /\ ~ThroughLink(fsLast[2])) =>
             ~fsLast[5]
        /\ (fsLast # <<>> /\ fsLast[5]) => fsLast[1] = "write")
  /\ [][\A n \in Nodes :
          fsTree'[n] # fsTree[n] =>
            \/ fsTree[n] = "none" /\ fsTree'[n] = "dir" /\ fsLast'[1] = "write"
            \/ fsTree'[n] = "written" /\ fsLast'[1] = "write" /\ fsLast'[3] = "ok"]_vars

\* C30 witness: the write of in/../new/f, with the symlink pointing outside,
\* returned the escape error after MkdirAll had made the directory new.
C30_Witness ==
  /\ fsLast # <<>>
  /\ fsLast[1] = "write" /\ fsLast[2] = <<"in", "..", "new", "f">>
  /\ fsLast[3] = "escape" /\ fsLast[4] # "sub" /\ fsLast[5]
  /\ fsTree[<<"new">>] = "dir" /\ fsTree[<<"new", "f">>] = "none"
  /\ fsOutside = {}

RECURSIVE Concat(_)
Concat(chunks) ==
  IF chunks = <<>> THEN <<>> ELSE Head(chunks) \o Concat(Tail(chunks))

\* where the claim places the break in the runes that are left: just after
\* the last newline within the first maxLen characters, otherwise just after
\* the last space there, otherwise at maxLen
PreferredBreak(runes, maxLen) ==
  LET last(c) == {p \in 1..maxLen : runes[p] = c /\ \A q \in (p + 1)..maxLen : runes[q] # c}
  IN IF last("\n") # {} THEN CHOOSE p \in last("\n") : TRUE
     ELSE IF last(" ") # {} THEN CHOOSE p \in last(" ") : TRUE
     ELSE maxLen

\* C31 (message splitting): the chunks splitMessage returns for a non-empty
\* content and maxLen >= 1 concatenate to the content, each is non-empty and
\* at most maxLen characters long, a content of at most maxLen characters
\* gives one chunk, and every break is just after the last newline within the
\* first maxLen characters of what is left, otherwise just after the last
\* space there, otherwise at maxLen.
C31_SplitMessage ==
  splitPc = "done" =>
    LET content == splitArgs[2]
        maxLen == splitArgs[3]
        n == Len(splitChunks)
        left(k) == Concat(SubSeq(splitChunks, k, n))
    IN /\ Concat(splitChunks) = content
       /\ \A k \in 1..n : Len(splitChunks[k]) \in 1..maxLen
       /\ Len(content) <= maxLen => n = 1
       /\ \A k \in 1..(n - 1) : Len(splitChunks[k]) = PreferredBreak(left(k), maxLen)

\* the parts of C31 that do not place the break
C31_Chunks ==
  splitPc = "done" =>
    /\ Concat(splitChunks) = splitArgs[2]
    /\ \A k \in 1..Len(splitChunks) : Len(splitChunks[k]) \in 1..splitArgs[3]
    /\ Len(splitArgs[2]) <= splitArgs[3] => Len(splitChunks) = 1

\* C32 (config round trip): the GET /api/config that follows a successful
\* POST /api/config with a document D of the config-file contract returns D:
\* every field of D is in the returned document with the value it has in D.
C32_ConfigRoundTrip ==
  (cfgPost[3] = 200 /\ cfgGot # <<>>) =>
    \A f \in ConfigFields : cfgPost[2][f] # "absent" => cfgGot[1][f] = cfgPost[2][f]

\* C33 (subscription delivery): whenever the router forwards an outbound
\* message, every queue that Subscribe returned for the message's channel id
\* and whose consumer is running receives it, also when Subscribe was called
\* again in between; so of two web streams each receives the messages of its
\* session.
C33_SubscriptionDelivery ==
  [][(routerPc = "send" /\ routerPc' = "recv") =>
       \A q \in SubIds :
         (subName[q] = ChannelOf(routerMsg) /\ consumerPc[q] = "running") =>
           subQ'[q] = Append(subQ[q], routerMsg)]_vars

\* C34 (MCP resource discipline): a client whose initialize or tools/list
\* failed is closed when ConnectServer has returned and is the client of no
\* tool; and when Manager.Close has returned no client is open, so no tool of
\* the manager reaches an open client - also after a second ConnectServer for
\* a name that was connected.
C34_ClientsClosed ==
  /\ \A c \in ClientIds :
       clientConn[c][2] \in {"initfail", "listfail"} =>
         clientState[c] = "closed" /\ \A k \in ToolKeys : toolClient[k] # c
  /\ mgrLast = "close" =>
       /\ \A c \in ClientIds : clientState[c] # "open"
       /\ \A k \in ToolKeys :
            toolClient[k] # 0 => clientState[toolClient[k]] # "open"

\* the part of C34 about the clients whose handshake failed
C34_FailedClosed ==
  \A c \in ClientIds :
    clientConn[c][2] \in {"initfail", "listfail"} =>
      clientState[c] = "closed" /\ \A k \in ToolKeys : toolClient[k] # c

\* C35 (call termination on the stdio transport): a Call that waits for its
\* response returns once the response has arrived, the transport has been
\* closed or the child has exited, also when its context has no deadline.
C35_CallReturns ==
  (callPc[1] = "wait" /\ (done[1] # <<>> \/ closed \/ ~childUp))
    ~> (callPc[1] = "returned")

\* the part of C35 about the response that has arrived
C35_ResponseReturns ==
  (callPc[1] = "wait" /\ done[1] # <<>>) ~> (callPc[1] = "returned")

\* the Close that won the compare-and-set has sent its DELETE or has found
\* no session id to send it for
CloseDecided == hClosed /\ \A k \in Closers : hClosePc[k] # "delete"

\* C36 (HTTP Close against concurrent operations): once Close has sent its
\* DELETE, or has decided to send none, no request is sent any more; and
\* when Close has decided and every operation has returned, a session id the
\* transport has learned has had its DELETE.
C36_CloseFinal ==
  /\ [][CloseDecided => hLog' = hLog]_vars
  /\ []((CloseDecided /\ hSession # 0 /\ \A r \in HttpOps : hPc[r] \in {"idle", "returned"})
          => \E i \in 1..Len(hLog) : hLog[i] = <<"DELETE", hSession, 0>>)

\* C37 (Hub.Close never causes a fault): whether Close is called once or
\* again, and whatever a producer or the agent loop is doing when it runs,
\* no send reaches a closed queue and no queue is closed twice.
C37_NoFault == ~crashed

\* C38 (tool keys are injective): every tool a server listed stays in the
\* Manager under its key as the tool of that server, whatever other servers
\* are connected, and once the tools are registered every one of them stands
\* in the registry as an MCP tool beside the stats tool.
C38_KeysInjective ==
  /\ \A p \in kListed : <<ToolKey(p[1], p[2]), p[1], p[2]>> \in kTools
  /\ <<"mcp_stats", "stats">> \in kReg =>
       \A p \in kListed : <<ToolKey(p[1], p[2]), "mcp">> \in kReg

\* C39 (typing-indicator stop channels): the typingStop map holds, for a
\* conversation, only a channel that has not been closed and that belongs to
\* the indicator of that conversation, never one channel for two
\* conversations; and a channel is closed only in the step that takes it
\* out of the map, so that no close finds a channel already closed.
C39_StopChannels ==
  /\ [](\A c \in Chats :
         typingStop[c] # 0 =>
           /\ ~stopClosed[typingStop[c]]
           /\ taskChat[typingStop[c]] = c
           /\ \A d \in Chats \ {c} : typingStop[d] # typingStop[c])
  /\ [][\A t \in Tasks :
          (~stopClosed[t] /\ stopClosed'[t]) =>
            \E c \in Chats : typingStop[c] = t /\ typingStop'[c] # t]_vars
  /\ [][\A c \in Chats :
          (typingStop[c] # 0 /\ typingStop'[c] # typingStop[c]) =>
            stopClosed'[typingStop[c]]]_vars

\* a second message of one conversation has replaced and closed the first
\* indicator's channel, the second indicator has left by its timeout with
\* its channel still in the map, and a reply's stopTyping has run
C39_Witness ==
  /\ nextTask = 2 /\ taskChat[1] = taskChat[2]
  /\ stopClosed[1] /\ ~stopClosed[2]
  /\ typingStop[taskChat[2]] = 2 /\ taskPc[2] = "exited"
  /\ Len(dcReplies) = 1

\* C40 (legacy stdio Client): a call that waits for the mutex gets to write
\* its request; a call whose context is done returns; and no reader drops
\* the response of another call.
C40_LegacyCall ==
  /\ \A k \in LegacyCallers : (lcPc[k] = "lock") ~> (lcPc[k] # "lock")
  /\ \A k \in LegacyCallers : lcCtx[k] ~> (lcPc[k] = "returned")
  /\ [](lcLost = {})
====
